---- MODULE Spec2Model ----
(***************************************************************************)
(* GraphFlowOrchestrator (src/src/core/orchestrator.py) with its ledgers   *)
(* (src/src/core/data_structures.py), the chain configurations             *)
(* (src/src/config/chain_config.py) and the workflow logger                *)
(* (src/src/utils/workflow_logger.py).                                     *)
(*                                                                         *)
(* A worker response is abstracted to what the analyzer and the router     *)
(* read of it: whether an expected completion marker occurs in the         *)
(* combined content, whether the combined content is longer than 50        *)
(* characters, and which of the scanned keywords occur in it.              *)
(***************************************************************************)
EXTENDS Naturals, Integers, Sequences, FiniteSets, TLC

VARIABLES
    chain,              \* name of the chain configuration the run was built from
    task,               \* the task text handed to run_stream
    project_config,     \* TaskLedger.project_config
    naming_reply,       \* outcome of the naming LLM call of this planning phase
    memory_fault,       \* which memory operation of the current round raised
    close_calls,        \* the close calls of cleanup_memory_system, with outcome
    run,                \* number of the run within the process
    managers,           \* the process-wide memory managers: flag and store
    agent_dependencies, \* agent_communication_memory.agent_dependencies (<<>>: no key)
    test_history,       \* the records of unit_test_memory_manager, oldest first
    memory_faults_left, \* memory operations that may still raise in this process
    round_steps,        \* the steps of the current round performed so far
    node_instructions,  \* ProgressLedger.node_instructions: round of the entry (0: no key)
    memory_initialized, \* GraphFlowOrchestrator.memory_initialized
    pc,                 \* position of run_stream / _inner_loop_execution
    node_states,        \* ProgressLedger.node_states ("absent": no such key)
    execution_history,  \* ProgressLedger.execution_history
    stall_count,        \* ProgressLedger.stall_count
    retry_counts,       \* ProgressLedger.retry_counts (a dict: partial function)
    failed_paths,       \* TaskLedger.failed_paths
    error_history,      \* TaskLedger.error_history
    facts,              \* TaskLedger.facts
    plan,               \* TaskLedger.plan
    current_nodes,      \* local current_nodes of _inner_loop_execution
    execution_round,    \* local execution_round of _inner_loop_execution
    next_node,          \* local next_node of _inner_loop_execution
    response,           \* the worker's response of the current round
    test_report,        \* /Users/jabez/output/test_report.json as this round finds it
    execution_result,   \* local execution_result of _inner_loop_execution
    workflow_agents,    \* WorkflowLogger.workflow_data["agents"]
    workflow_events,    \* WorkflowLogger.workflow_data["events"]
    emitted,            \* the events yielded by _inner_loop_execution
    summary             \* the summary handed to log_workflow_complete

vars == <<chain, task, project_config, naming_reply, memory_fault, close_calls,
          run, managers, agent_dependencies, test_history, memory_faults_left,
          round_steps,
          node_instructions,
          memory_initialized, pc, node_states, execution_history,
          stall_count, retry_counts, failed_paths, error_history, facts, plan,
          current_nodes, execution_round, next_node, response, test_report,
          execution_result, workflow_agents, workflow_events, emitted, summary>>

----------------------------------------------------------------------------
(* Bounds of the model *)

\* the inner loop is cut after this many rounds (execution_round is unbounded)
MaxRounds == 11
\* the failure and error counts of a test report range over 0..MaxCount
MaxCount == 1

----------------------------------------------------------------------------
(* Workers and chain configurations *)

Agents ==
    {"CodePlanningAgent", "FunctionWritingAgent", "TestGenerationAgent",
     "UnitTestAgent", "RefactoringAgent", "CodeScanningAgent",
     "ProjectStructureAgent"}

ChainNames == {"standard", "minimal", "prototype", "quality"}

ChainAgents(c) ==
    CASE c = "standard" -> Agents
      [] c = "minimal" -> {"CodePlanningAgent", "FunctionWritingAgent",
                           "TestGenerationAgent", "UnitTestAgent"}
      [] c = "prototype" -> {"CodePlanningAgent", "FunctionWritingAgent"}
      [] c = "quality" -> {"FunctionWritingAgent", "UnitTestAgent",
                           "CodeScanningAgent"}

ChainMaxStalls(c) ==
    CASE c = "standard" -> 3
      [] c = "minimal" -> 2
      [] c = "prototype" -> 1
      [] c = "quality" -> 2

ChainMaxRetries(c) ==
    CASE c = "standard" -> 2
      [] c = "minimal" -> 1
      [] c = "prototype" -> 1
      [] c = "quality" -> 1

participants == ChainAgents(chain)
max_stalls == ChainMaxStalls(chain)
max_retries == ChainMaxRetries(chain)

NodeState == {"not_started", "in_progress", "completed", "failed", "retrying"}

----------------------------------------------------------------------------
(* Worker responses and the test report *)

Keywords == {"failed", "error", "assertion", "traceback"}

\* the keyword sets a combined content is drawn with: none, one keyword that
\* both the analyzer and the router scan for, one that only the router scans for
WordSets == {{}, {"assertion"}, {"traceback"}}

Contents ==
    {[marker |-> m, long |-> l, words |-> w] :
        m \in BOOLEAN, l \in BOOLEAN, w \in WordSets}

EmptyContent == [marker |-> FALSE, long |-> FALSE, words |-> {}]

\* "ok": chat_message and inner_messages as expected; "malformed": reading
\* them raises inside _analyze_execution_result
Responses ==
    {[kind |-> "ok", content |-> c] : c \in Contents}
        \cup {[kind |-> "malformed", content |-> EmptyContent]}

NoResponse == [kind |-> "none", content |-> EmptyContent]

MissingReport == [exists |-> FALSE, readable |-> FALSE, failures |-> 0, errors |-> 0]
CorruptReport == [exists |-> TRUE, readable |-> FALSE, failures |-> 0, errors |-> 0]

Reports ==
    {MissingReport, CorruptReport}
        \cup {[exists |-> TRUE, readable |-> TRUE, failures |-> f, errors |-> e] :
                f \in 0..MaxCount, e \in 0..MaxCount}

Reason(k, f, e) == [kind |-> k, failures |-> f, errors |-> e]

----------------------------------------------------------------------------
(* Result analyzer: GraphFlowOrchestrator._analyze_execution_result *)

\* The local name failure_reasons is bound only by the assignment that follows
\* the success rule, so inside the unit-test report check it is still unbound.
ReasonsBeforeAssignment == [bound |-> FALSE, value |-> <<>>]

\* failure_reasons.append(r): raises when the name is unbound
append_reason(local, r) ==
    IF local.bound
        THEN [raised |-> FALSE, local |-> [bound |-> TRUE, value |-> Append(local.value, r)]]
        ELSE [raised |-> TRUE, local |-> local]

\* The try block of the unit-test special case and its except clause.
unit_test_report_check(combined, report) ==
    LET local == ReasonsBeforeAssignment
        tried ==
            IF report.exists
                THEN IF ~report.readable
                        THEN [raised |-> TRUE, success |-> FALSE]
                        ELSE IF report.failures > 0 \/ report.errors > 0
                                THEN [raised |-> append_reason(local,
                                                  Reason("report", report.failures, report.errors)).raised,
                                      success |-> FALSE]
                                ELSE [raised |-> FALSE, success |-> TRUE]
                ELSE IF combined.words \cap {"failed", "error", "assertion"} # {}
                        THEN [raised |-> append_reason(local,
                                          Reason("output_failure", 0, 0)).raised,
                              success |-> FALSE]
                        ELSE [raised |-> FALSE, success |-> TRUE]
    IN  IF tried.raised THEN TRUE ELSE tried.success

analyze_execution_result(node_name, resp, report) ==
    IF resp.kind # "ok"
        THEN [success |-> FALSE,
              failure_reasons |-> <<Reason("analysis_exception", 0, 0)>>,
              message_content |-> EmptyContent,
              has_completion_marker |-> FALSE]
        ELSE LET combined == resp.content
                 has_completion_marker == combined.marker
                 success ==
                     IF has_completion_marker
                         THEN IF node_name = "UnitTestAgent"
                                 THEN unit_test_report_check(combined, report)
                                 ELSE TRUE
                         ELSE combined.long
                 failure_reasons ==
                     IF ~has_completion_marker /\ ~combined.long
                         THEN <<Reason("missing_marker_short", 0, 0)>>
                         ELSE IF ~has_completion_marker
                                 THEN <<Reason("missing_marker", 0, 0)>>
                                 ELSE <<>>
             IN  [success |-> success,
                  failure_reasons |-> failure_reasons,
                  message_content |-> combined,
                  has_completion_marker |-> has_completion_marker]

\* mutant of ExceptionAnalysis: the exception is not recorded as a reason
ExceptionAnalysis_no_reason ==
    [success |-> FALSE,
     failure_reasons |-> <<>>,
     message_content |-> EmptyContent,
     has_completion_marker |-> FALSE]

\* the analysis built by the except clause of _execute_node_with_monitoring
ExceptionAnalysis ==
    [success |-> FALSE,
     failure_reasons |-> <<Reason("execution_exception", 0, 0)>>,
     message_content |-> EmptyContent,
     has_completion_marker |-> FALSE]

NoResult ==
    [success |-> FALSE, analysis |-> ExceptionAnalysis, node |-> "none",
     needs_reselection |-> FALSE, raised |-> FALSE]

----------------------------------------------------------------------------
(* Ledger methods *)

\* mutant of update_node_state: the entry is put at the head of the history
update_node_state_prepend(ledger, node_name, state) ==
    [node_states |-> [ledger.node_states EXCEPT ![node_name] = state],
     execution_history |-> <<[node |-> node_name, state |-> state]>>
                           \o ledger.execution_history]

\* mutant of update_node_state: the entry is appended, the state is not written
update_node_state_history_only(ledger, node_name, state) ==
    [node_states |-> ledger.node_states,
     execution_history |-> Append(ledger.execution_history,
                                  [node |-> node_name, state |-> state])]

\* ProgressLedger.update_node_state, on the pair (node_states, execution_history)
update_node_state(ledger, node_name, state) ==
    [node_states |-> [ledger.node_states EXCEPT ![node_name] = state],
     execution_history |-> Append(ledger.execution_history,
                                  [node |-> node_name, state |-> state])]

Ledger == [node_states |-> node_states, execution_history |-> execution_history]

\* retry_counts.get(node_name, 0)
retry_count_of(rc, node_name) ==
    IF node_name \in DOMAIN rc THEN rc[node_name] ELSE 0

\* mutant of stall_after: a failed round counts twice
stall_after_double(stall, success) ==
    IF success THEN (IF stall - 1 > 0 THEN stall - 1 ELSE 0) ELSE stall + 2

\* the stall counter after a round
stall_after(stall, success) ==
    IF success THEN (IF stall - 1 > 0 THEN stall - 1 ELSE 0) ELSE stall + 1

\* mutant of should_reselect_agent: every failure asks for reselection
should_reselect_agent_any_failure(rc, node_name, analysis) == ~analysis.success

should_reselect_agent(rc, node_name, analysis) ==
    retry_count_of(rc, node_name) >= 2 /\ ~analysis.success

\* mutant of should_replan: strict comparison
should_replan_strict(stall, limit) == stall > limit

should_replan(stall, limit) == stall >= limit

get_source_nodes == <<"CodePlanningAgent">>

----------------------------------------------------------------------------
(* Workflow logger *)

log_agent_start(agents, agent_name) ==
    Append(agents, [name |-> agent_name, status |-> "started"])

\* index of the first entry of that name still "started", 0 if none
FirstStarted(agents, agent_name) ==
    LET hits == {i \in 1..Len(agents) :
                    agents[i].name = agent_name /\ agents[i].status = "started"}
    IN  IF hits = {} THEN 0 ELSE CHOOSE i \in hits : \A j \in hits : i <= j

log_agent_complete(agents, agent_name, success) ==
    LET i == FirstStarted(agents, agent_name)
    IN  IF i = 0 THEN agents
        ELSE [agents EXCEPT ![i].status = IF success THEN "completed" ELSE "failed"]

log_event(events, type, message) ==
    Append(events, [type |-> type, message |-> message])

----------------------------------------------------------------------------
(* Dynamic router: GraphFlowOrchestrator._get_next_executable_nodes *)

\* mutant of has_test_errors: the failure reasons are not consulted
has_test_errors_keywords_only(analysis) ==
    \/ "failed" \in analysis.message_content.words
    \/ "error" \in analysis.message_content.words
    \/ "assertion" \in analysis.message_content.words
    \/ "traceback" \in analysis.message_content.words

has_test_errors(analysis) ==
    \/ "failed" \in analysis.message_content.words
    \/ "error" \in analysis.message_content.words
    \/ "assertion" \in analysis.message_content.words
    \/ "traceback" \in analysis.message_content.words
    \/ Len(analysis.failure_reasons) > 0

find_alternative_nodes(failed_node, parts) ==
    IF failed_node = "FunctionWritingAgent" /\ "CodePlanningAgent" \in parts
        THEN <<"CodePlanningAgent">>
    ELSE IF failed_node = "TestGenerationAgent" /\ "FunctionWritingAgent" \in parts
        THEN <<"FunctionWritingAgent">>
    ELSE IF failed_node = "UnitTestAgent" /\ "TestGenerationAgent" \in parts
        THEN <<"TestGenerationAgent">>
    ELSE <<>>

normal_flow_sequence ==
    <<"CodePlanningAgent", "FunctionWritingAgent", "TestGenerationAgent",
      "UnitTestAgent", "CodeScanningAgent", "ProjectStructureAgent">>

\* mutant of normal_flow_next: the index is advanced by two
normal_flow_next_skip(current_node) ==
    LET idx == {i \in 1..Len(normal_flow_sequence) : normal_flow_sequence[i] = current_node}
    IN  IF idx = {} THEN <<>>
        ELSE LET i == CHOOSE j \in idx : TRUE
             IN  IF i + 2 <= Len(normal_flow_sequence)
                    THEN <<normal_flow_sequence[i + 2]>>
                    ELSE <<>>

\* the successor of current_node in the normal flow, <<>> when there is none
normal_flow_next(current_node) ==
    LET idx == {i \in 1..Len(normal_flow_sequence) : normal_flow_sequence[i] = current_node}
    IN  IF idx = {} THEN <<>>
        ELSE LET i == CHOOSE j \in idx : TRUE
             IN  IF i + 1 <= Len(normal_flow_sequence)
                    THEN <<normal_flow_sequence[i + 1]>>
                    ELSE <<>>

\* mutant of error_info: the test output is left empty
error_info_no_output(analysis) ==
    [source |-> "UnitTestAgent",
     errors |-> analysis.failure_reasons,
     test_output |-> EmptyContent]

\* error_info appended when a unit-test failure is handed to the refactor worker
error_info(analysis) ==
    [source |-> "UnitTestAgent",
     errors |-> analysis.failure_reasons,
     test_output |-> analysis.message_content]

\* the general failure handling and the normal flow (the part after the
\* if/elif chain of special cases)
general_flow(current_node, result, rc, parts, retries) ==
    IF ~result.success /\ retry_count_of(rc, current_node) <= retries
        THEN <<current_node>>
    ELSE IF ~result.success /\ find_alternative_nodes(current_node, parts) # <<>>
        THEN find_alternative_nodes(current_node, parts)
    ELSE normal_flow_next(current_node)

\* mutant of router_rule: the refactor-success branch is missing
router_rule_no_refactor_branch(current_node, result, rc, retries) ==
    IF current_node = "UnitTestAgent" /\ ~result.success
        THEN IF has_test_errors(result.analysis) THEN "test_failure_to_refactor"
             ELSE IF retry_count_of(rc, current_node) <= retries THEN "test_failure_retry"
             ELSE "general"
    ELSE IF current_node = "UnitTestAgent" /\ result.success
        THEN "test_success"
    ELSE "general"

\* which branch of the if/elif chain of special cases is taken
router_rule(current_node, result, rc, retries) ==
    IF current_node = "UnitTestAgent" /\ ~result.success
        THEN IF has_test_errors(result.analysis) THEN "test_failure_to_refactor"
             ELSE IF retry_count_of(rc, current_node) <= retries THEN "test_failure_retry"
             ELSE "general"
    ELSE IF current_node = "RefactoringAgent" /\ result.success
        THEN "refactor_success"
    ELSE IF current_node = "UnitTestAgent" /\ result.success
        THEN "test_success"
    ELSE "general"

\* mutant of next_executable_nodes: after a passed test run both remaining
\* workers are candidates
next_executable_nodes_two_candidates(current_node, result, rc, parts, retries) ==
    LET rule == router_rule(current_node, result, rc, retries)
    IN  CASE rule = "test_failure_to_refactor" -> <<"RefactoringAgent">>
          [] rule = "test_failure_retry" -> <<current_node>>
          [] rule = "refactor_success" -> <<"UnitTestAgent">>
          [] rule = "test_success" -> <<"CodeScanningAgent", "ProjectStructureAgent">>
          [] OTHER -> general_flow(current_node, result, rc, parts, retries)

\* the candidate list returned
next_executable_nodes(current_node, result, rc, parts, retries) ==
    LET rule == router_rule(current_node, result, rc, retries)
    IN  CASE rule = "test_failure_to_refactor" -> <<"RefactoringAgent">>
          [] rule = "test_failure_retry" -> <<current_node>>
          [] rule = "refactor_success" -> <<"UnitTestAgent">>
          [] rule = "test_success" -> <<"CodeScanningAgent">>
          [] OTHER -> general_flow(current_node, result, rc, parts, retries)

\* mutant of router_node_states: the test runner is marked as running
router_node_states_running(ns, rule) ==
    IF rule = "refactor_success"
        THEN [ns EXCEPT !["UnitTestAgent"] = "in_progress"]
        ELSE ns

\* mutant of router_node_states: the test generator is reset as well
router_node_states_wide(ns, rule) ==
    IF rule = "refactor_success"
        THEN [ns EXCEPT !["UnitTestAgent"] = "not_started",
                        !["TestGenerationAgent"] = "not_started"]
        ELSE ns

\* mutant of router_node_states: the test runner is reset when its failure
\* is handed to the refactor worker
router_node_states_reset_on_failure(ns, rule) ==
    IF rule \in {"refactor_success", "test_failure_to_refactor"}
        THEN [ns EXCEPT !["UnitTestAgent"] = "not_started"]
        ELSE ns

\* node_states after the router: only the refactor-success rule writes it
router_node_states(ns, rule) ==
    IF rule = "refactor_success"
        THEN [ns EXCEPT !["UnitTestAgent"] = "not_started"]
        ELSE ns

\* mutant of router_retry_counts: the counter is advanced instead of reset
router_retry_counts_advance(rc, rule) ==
    IF rule = "refactor_success"
        THEN [a \in DOMAIN rc \cup {"UnitTestAgent"} |->
                IF a = "UnitTestAgent" THEN retry_count_of(rc, a) + 1 ELSE rc[a]]
        ELSE rc

\* retry_counts after the router
router_retry_counts(rc, rule) ==
    IF rule = "refactor_success" /\ "UnitTestAgent" \in DOMAIN rc
        THEN [rc EXCEPT !["UnitTestAgent"] = 0]
        ELSE rc

\* error_history after the router
router_error_history(eh, rule, analysis) ==
    IF rule = "test_failure_to_refactor"
        THEN Append(eh, error_info(analysis))
        ELSE eh

----------------------------------------------------------------------------
(* Next-speaker selector: GraphFlowOrchestrator._intelligent_node_selection *)

\* what the progress-ledger LLM call can come to: a JSON reply naming a
\* worker, an unparsable reply, or an exception
LLMOutcomes == Agents \cup {"unparsable", "raised"}

\* _analyze_progress_ledger: the next_speaker answer
analyze_progress_ledger(candidate_nodes, llm) ==
    IF llm \in {"unparsable", "raised"} THEN candidate_nodes[1] ELSE llm

\* mutant of intelligent_node_selection: the answer is not validated
intelligent_node_selection_unchecked(candidate_nodes, llm) ==
    IF Len(candidate_nodes) = 1 THEN candidate_nodes[1]
    ELSE analyze_progress_ledger(candidate_nodes, llm)

intelligent_node_selection(candidate_nodes, llm) ==
    IF Len(candidate_nodes) = 1 THEN candidate_nodes[1]
    ELSE LET selected_node == analyze_progress_ledger(candidate_nodes, llm)
         IN  IF \E i \in 1..Len(candidate_nodes) : candidate_nodes[i] = selected_node
                THEN selected_node
                ELSE candidate_nodes[1]

----------------------------------------------------------------------------
(* Dynamic file naming: src/src/utils/file_naming.py *)

\* the longest task modelled, in words
MaxTaskWords == 2

\* the words a task is made of; "zh:..." stands for the Chinese keyword of
\* the fallback table with that meaning
TaskWords ==
    {"String", "zh:string", "mathematics", "zh:compute", "profile", "HTTP", "zh:network", "sort"}

\* the keywords of the fallback table that occur in word.lower()
keywords_in_lower(word) ==
    CASE word = "String" -> {"string"}
      [] word = "zh:string" -> {"zh:string"}
      [] word = "mathematics" -> {"math"}
      [] word = "zh:compute" -> {"zh:compute"}
      [] word = "profile" -> {"file"}
      [] word = "HTTP" -> {"http"}
      [] word = "zh:network" -> {"zh:network"}
      [] OTHER -> {}

\* a task is read only through the substrings of its lower-cased text
Tasks == {t \in SUBSET TaskWords : Cardinality(t) <= MaxTaskWords}

DefaultTask == {"String"}

\* keyword in task_lower
in_task_lower(keyword, t) == \E w \in t : keyword \in keywords_in_lower(w)

NamingConfig(name, main, test) ==
    [project_name |-> name, main_file |-> main, test_file |-> test]

\* mutant of get_default_project_config: the math row is consulted first
get_default_project_config_math_first(t) ==
    IF in_task_lower("zh:math", t) \/ in_task_lower("math", t) \/ in_task_lower("zh:compute", t)
        THEN NamingConfig("math_utils", "math_calculator.py", "test_math_calculator.py")
    ELSE IF in_task_lower("zh:string", t) \/ in_task_lower("string", t)
        THEN NamingConfig("string_utils", "string_operations.py",
                          "test_string_operations.py")
    ELSE IF in_task_lower("zh:file", t) \/ in_task_lower("file", t)
        THEN NamingConfig("file_utils", "file_processor.py", "test_file_processor.py")
    ELSE IF in_task_lower("zh:network", t) \/ in_task_lower("network", t)
                \/ in_task_lower("http", t)
        THEN NamingConfig("network_utils", "network_client.py",
                          "test_network_client.py")
    ELSE NamingConfig("custom_utils", "main_module.py", "test_main_module.py")

get_default_project_config(t) ==
    IF in_task_lower("zh:string", t) \/ in_task_lower("string", t)
        THEN NamingConfig("string_utils", "string_operations.py",
                          "test_string_operations.py")
    ELSE IF in_task_lower("zh:math", t) \/ in_task_lower("math", t) \/ in_task_lower("zh:compute", t)
        THEN NamingConfig("math_utils", "math_calculator.py", "test_math_calculator.py")
    ELSE IF in_task_lower("zh:file", t) \/ in_task_lower("file", t)
        THEN NamingConfig("file_utils", "file_processor.py", "test_file_processor.py")
    ELSE IF in_task_lower("zh:network", t) \/ in_task_lower("network", t)
                \/ in_task_lower("http", t)
        THEN NamingConfig("network_utils", "network_client.py",
                          "test_network_client.py")
    ELSE NamingConfig("custom_utils", "main_module.py", "test_main_module.py")

\* what the naming LLM call can do: return text with a complete JSON object,
\* with a JSON object that lacks a key, with no JSON object, or raise
NamingOutcomes == {"json", "json_incomplete", "no_json", "raises"}

\* the JSON objects an answer of the naming LLM is modelled with: the answer
\* of the first example of the parsing prompt, and one without the file keys
LLMConfig ==
    NamingConfig("string_utils", "string_operations.py", "test_string_operations.py")
IncompleteConfig == [project_name |-> "llm_project"]

parse_task_and_generate_config(t, naming) ==
    CASE naming = "json" -> LLMConfig
      [] naming = "json_incomplete" -> IncompleteConfig
      [] OTHER -> get_default_project_config(t)

\* the three subscripts of _outer_loop_planning succeed
has_naming_keys(config) ==
    {"project_name", "main_file", "test_file"} \subseteq DOMAIN config

\* TaskLedger.project_config before set_project_config: an empty dict
NoConfig == [k \in {} |-> ""]

\* a path is the sequence of its parts; "/" is a part of its own
DefaultBaseDir == <<"/", "Users", "/", "jabez", "/", "output">>

\* mutant of set_project_config: the test path is built from the main file
set_project_config_one_path(config, base_dir) ==
    [project_name |-> config.project_name,
     main_file |-> config.main_file,
     test_file |-> config.test_file,
     base_dir |-> base_dir,
     main_file_path |-> base_dir \o <<"/", config.main_file>>,
     test_file_path |-> base_dir \o <<"/", config.main_file>>]

\* TaskLedger.set_project_config
set_project_config(config, base_dir) ==
    [project_name |-> config.project_name,
     main_file |-> config.main_file,
     test_file |-> config.test_file,
     base_dir |-> base_dir,
     main_file_path |-> base_dir \o <<"/", config.main_file>>,
     test_file_path |-> base_dir \o <<"/", config.test_file>>]

\* dict.get(key, default)
dict_get(d, key, default) == IF key \in DOMAIN d THEN d[key] ELSE default

\* TaskLedger.get_file_path
get_file_path(config, file_type) ==
    CASE file_type = "main" ->
            dict_get(config, "main_file_path", DefaultBaseDir \o <<"/", "main.py">>)
      [] file_type = "test" ->
            dict_get(config, "test_file_path", DefaultBaseDir \o <<"/", "test_main.py">>)
      [] OTHER ->
            dict_get(config, "base_dir", DefaultBaseDir) \o <<"/", file_type>>

----------------------------------------------------------------------------
(* The memory system as the driver uses it: src/src/memory/__init__.py *)

MemoryStores == <<"execution_log", "communication", "unit_test">>

StoreNames == {MemoryStores[i] : i \in 1..Len(MemoryStores)}

\* the singletons before any initialize(): flag False, no store object
NoManagers == [s \in StoreNames |-> [initialized |-> FALSE, store |-> "none"]]

\* initialize() of a manager: nothing is done once the flag is set
initialize_manager(m) ==
    IF m.initialized THEN m ELSE [initialized |-> TRUE, store |-> "open"]

\* close() of a manager: the store is closed, the flag is left as it is
close_manager(m) ==
    IF m.store = "none" THEN m ELSE [m EXCEPT !.store = "closed"]

\* _initialize_memory_system: every initialize() returns, or the one of the
\* execution log, the communication memory or the unit-test memory raises
MemoryInitOutcomes ==
    {"ok", "execution_log_raises", "communication_raises", "unit_test_raises"}

\* the number of initialize() calls that return
initialized_calls(outcome) ==
    CASE outcome = "execution_log_raises" -> 0
      [] outcome = "communication_raises" -> 1
      [] outcome = "unit_test_raises" -> 2
      [] OTHER -> 3

\* initialize() can raise only where it creates a store
init_outcome_possible(mgrs, outcome) ==
    IF outcome = "ok" THEN TRUE
    ELSE ~mgrs[MemoryStores[initialized_calls(outcome) + 1]].initialized

\* the managers after initialize_memory_system() and, if it returned True,
\* unit_test_memory_manager.initialize()
initialize_memory_system(mgrs, outcome) ==
    [s \in StoreNames |->
        IF \E i \in 1..initialized_calls(outcome) : MemoryStores[i] = s
            THEN initialize_manager(mgrs[s])
            ELSE mgrs[s]]

\* the names a dependency map may have as keys
DependencyKeys == Agents \cup {"ReflectionAgent"}

\* AgentCommunicationMemory.agent_dependencies as constructed: no key
NoDependencies == [a \in DependencyKeys |-> <<>>]

\* the literal agent_dependencies of _configure_agent_dependencies
DependencyTable ==
    [a \in DependencyKeys |->
        CASE a = "FunctionWritingAgent" -> <<"CodePlanningAgent">>
          [] a = "TestGenerationAgent" -> <<"FunctionWritingAgent">>
          [] a = "UnitTestAgent" -> <<"TestGenerationAgent">>
          [] a = "RefactoringAgent" -> <<"UnitTestAgent">>
          [] a = "CodeScanningAgent" -> <<"UnitTestAgent", "RefactoringAgent">>
          [] a = "ProjectStructureAgent" -> <<"CodeScanningAgent">>
          [] a = "ReflectionAgent" -> <<"ProjectStructureAgent">>
          [] OTHER -> <<>>]

\* filtered_dependencies: the table restricted to the participants, on both
\* sides; a worker whose filtered list is empty gets no key
configure_agent_dependencies(parts) ==
    [a \in DependencyKeys |->
        IF a \in parts
            THEN SelectSeq(DependencyTable[a], LAMBDA dep : dep \in parts)
            ELSE <<>>]

\* ChainConfig.dependencies of the four chains
ChainDependencies(c) ==
    [a \in DependencyKeys |->
        CASE c \in {"standard", "minimal", "prototype"}
                /\ a = "FunctionWritingAgent" -> <<"CodePlanningAgent">>
          [] c \in {"standard", "minimal"}
                /\ a = "TestGenerationAgent" -> <<"FunctionWritingAgent">>
          [] c \in {"standard", "minimal"}
                /\ a = "UnitTestAgent" -> <<"TestGenerationAgent">>
          [] c = "standard" /\ a = "RefactoringAgent" -> <<"UnitTestAgent">>
          [] c = "standard" /\ a = "CodeScanningAgent" ->
                <<"UnitTestAgent", "RefactoringAgent">>
          [] c = "standard" /\ a = "ProjectStructureAgent" -> <<"CodeScanningAgent">>
          [] c = "quality" /\ a = "UnitTestAgent" -> <<"FunctionWritingAgent">>
          [] c = "quality" /\ a = "CodeScanningAgent" -> <<"UnitTestAgent">>
          [] OTHER -> <<>>]

\* memory_initialized after _initialize_memory_system
initialize_memory(outcome) == outcome = "ok"

\* _prepare_agent_execution, run before the worker call when the memory system
\* is initialised: the context update to "starting" or one of the queries
\* after it may raise
prepare_faults(initialized, faults_left) ==
    IF initialized /\ faults_left > 0
        THEN {"none", "context_starting_raises", "query_raises"}
        ELSE {"none"}

\* the recording block after the state transition, run when the memory system
\* is initialised and the round returns normally: the add of the execution
\* log, the context update to the result or a message send may raise
record_faults(initialized, faults_left) ==
    IF initialized /\ faults_left > 0
        THEN {"none", "log_record_raises", "context_result_raises", "send_raises"}
        ELSE {"none"}

\* the steps of a list
StepsOf(order) == {order[i] : i \in 1..Len(order)}

\* a list without the steps that were not performed
Performed(steps, skipped) == SelectSeq(steps, LAMBDA x : x \notin skipped)

\* no node_instructions attribute yet
NoInstructions == [a \in Agents |-> 0]

\* node_instructions[selected] = instruction, in the two branches of the
\* selector that store one
store_instruction(instructions, selected, stored, round) ==
    IF stored THEN [instructions EXCEPT ![selected] = round] ELSE instructions

\* build_enhanced_prompt: the round whose instruction the prompt of this
\* round carries; a missing entry is generated on the spot
specific_instruction(instructions, node_name, round) ==
    IF instructions[node_name] # 0 THEN instructions[node_name] ELSE round

\* the selector stores an instruction unless the answer is not a candidate
instruction_stored(candidate_nodes, llm) ==
    \/ Len(candidate_nodes) = 1
    \/ \E i \in 1..Len(candidate_nodes) :
            candidate_nodes[i] = analyze_progress_ledger(candidate_nodes, llm)

\* the steps left out of a round's first half: no instruction is stored when
\* the selector falls back to the first candidate, the participant lookup
\* raises for a worker outside the chain, _prepare_agent_execution is run
\* only when the memory system is initialised
skipped_before_call(stored, is_participant, initialized, fault) ==
    (IF stored THEN {} ELSE {"instruction_build"})
    \cup (IF is_participant /\ initialized /\ fault # "context_starting_raises"
            THEN {} ELSE {"context_starting"})
    \cup (IF is_participant THEN {} ELSE {"prompt_build"})

\* mutant of steps_before_call: the context update comes first
steps_before_call_context_first(stored, is_participant, initialized, fault) ==
    Performed(<<"context_starting", "instruction_build", "in_progress",
                "prompt_build">>,
              skipped_before_call(stored, is_participant, initialized, fault))

\* the steps of a round up to the worker call: the selector's instruction,
\* update_node_state(IN_PROGRESS), the participant lookup,
\* _prepare_agent_execution and _build_enhanced_prompt
steps_before_call(stored, is_participant, initialized, fault) ==
    Performed(<<"instruction_build", "in_progress", "context_starting",
                "prompt_build">>,
              skipped_before_call(stored, is_participant, initialized, fault))

\* the steps of a round from the worker call on when the worker returns: the
\* analysis, the state transition, and the recording block (not run when the
\* round asks for reselection, left at the first operation that raises)
steps_after_call(node_name, initialized, reselect, fault) ==
    <<"worker_call", "analysis", "transition">> \o
    (IF ~initialized \/ reselect \/ fault = "log_record_raises" THEN <<>>
     ELSE Performed(<<"log_record", "unit_test_record", "context_result",
                      "send_messages">>,
                    (IF node_name = "UnitTestAgent" THEN {} ELSE {"unit_test_record"})
                    \cup (IF fault = "context_result_raises"
                           THEN {"context_result", "send_messages"} ELSE {})
                    \cup (IF fault = "send_raises" THEN {"send_messages"} ELSE {})))

\* the steps of a round from the participant lookup on when it ends in the
\* except clause
steps_when_raised(is_participant) ==
    IF is_participant THEN <<"worker_call", "transition">> ELSE <<"transition">>

\* what _record_complete_unit_test_output is given as raw_response: a str,
\* as its signature says, or the Response object of the worker call
RawResponseKinds == {"text", "response_object"}

\* _extract_test_files_from_response starts with response.split('\n'), which
\* a Response object does not have: AttributeError
extract_test_files_raises(raw_response) == raw_response # "text"

\* str.strip on a line, a sequence of tokens of which " " is the blank
RECURSIVE strip(_)
strip(line) ==
    IF line = <<>> THEN <<>>
    ELSE IF line[1] = " " THEN strip(Tail(line))
    ELSE IF line[Len(line)] = " " THEN strip(SubSeq(line, 1, Len(line) - 1))
    ELSE line

\* line.startswith("FAIL:") / line.startswith("ERROR:")
starts_with(line, header) ==
    Len(line) >= 2 /\ line[1] = header /\ line[2] = ":"

\* line.split(":", 1)[1].strip(): what follows the first colon
test_name_of(line) ==
    LET colons == {i \in 1..Len(line) : line[i] = ":"}
        first == CHOOSE i \in colons : \A j \in colons : i <= j
    IN  strip(SubSeq(line, first + 1, Len(line)))

\* current_failure = {}
NoFailure == [test_name |-> <<>>, type |-> "none"]

\* the local state of _parse_test_output before the first line
ParseStart ==
    [failures |-> <<>>, errors |-> <<>>,
     current_failure |-> NoFailure, current_section |-> "none"]

\* the record under construction is appended to the list of its section
flush_failure(st) ==
    IF st.current_failure = NoFailure THEN st
    ELSE IF st.current_section = "failure"
        THEN [st EXCEPT !.failures = Append(st.failures, st.current_failure)]
    ELSE IF st.current_section = "error"
        THEN [st EXCEPT !.errors = Append(st.errors, st.current_failure)]
    ELSE st

\* the loop body for one line, as far as failures and errors are concerned:
\* the line is stripped first; a header closes the record before it
parse_line(st, raw_line) ==
    LET line == strip(raw_line)
    IN  IF starts_with(line, "FAIL") \/ starts_with(line, "ERROR")
            THEN [flush_failure(st) EXCEPT
                    !.current_failure =
                        [test_name |-> test_name_of(line),
                         type |-> IF starts_with(line, "FAIL") THEN "FAIL" ELSE "ERROR"],
                    !.current_section =
                        IF starts_with(line, "FAIL") THEN "failure" ELSE "error"]
            ELSE st

RECURSIVE parse_lines(_, _)
parse_lines(st, lines) ==
    IF lines = <<>> THEN st
    ELSE parse_lines(parse_line(st, Head(lines)), Tail(lines))

\* mutant of parse_test_output: the record open at the end is not appended
parse_test_output_open_record_lost(raw_output) ==
    LET st == parse_lines(ParseStart, raw_output)
    IN  [failures |-> st.failures, errors |-> st.errors]

\* UnitTestMemoryManager._parse_test_output on raw_output.split('\n'): the
\* failures and the errors
parse_test_output(raw_output) ==
    LET st == flush_failure(parse_lines(ParseStart, raw_output))
    IN  [failures |-> st.failures, errors |-> st.errors]

\* UnitTestMemoryManager.record_complete_test_execution: the record is
\* appended to test_history
record_complete_test_execution(history, raw_output, success) ==
    Append(history, [success |-> success,
                     raw_output |-> raw_output,
                     parsed_output |-> parse_test_output(raw_output)])

\* _record_complete_unit_test_output: the extraction and the record are in
\* one try block whose except clause only prints
record_complete_unit_test_output(history, raw_response, result_analysis) ==
    IF extract_test_files_raises(raw_response)
        THEN history
        ELSE record_complete_test_execution(history, <<>>, result_analysis.success)

CloseCall(store, outcome) == [store |-> store, outcome |-> outcome]

\* mutant of cleanup_memory_system: only the execution log is closed
cleanup_memory_system_first_only(raises_at) ==
    <<CloseCall(MemoryStores[1], IF raises_at = 1 THEN "raised" ELSE "closed")>>

\* the close calls of cleanup_memory_system when call number raises_at raises
\* (0: none does); the except clause ends the sequence at the raising call
cleanup_memory_system(raises_at) ==
    [i \in 1..(IF raises_at = 0 THEN Len(MemoryStores) ELSE raises_at) |->
        CloseCall(MemoryStores[i], IF i = raises_at THEN "raised" ELSE "closed")]

\* the managers after these close calls
closed_managers(mgrs, calls) ==
    [s \in StoreNames |->
        IF \E i \in 1..Len(calls) : calls[i] = CloseCall(s, "closed")
            THEN close_manager(mgrs[s])
            ELSE mgrs[s]]

----------------------------------------------------------------------------
(* The run: GraphFlowOrchestrator.__init__, run_stream, _outer_loop_planning,
   _inner_loop_execution, _execute_node_with_monitoring *)

\* everything but the chain and the task
InitRest ==
    /\ run = 1
    /\ managers = NoManagers
    /\ round_steps = <<>>
    /\ test_history = <<>>
    /\ node_instructions = NoInstructions
    /\ agent_dependencies = NoDependencies
    /\ project_config = NoConfig
    /\ naming_reply = "none"
    /\ memory_fault = "none"
    /\ close_calls = <<>>
    /\ memory_initialized = FALSE
    /\ pc = "start"
    /\ node_states = [a \in Agents |->
                        IF a \in ChainAgents(chain) THEN "not_started" ELSE "absent"]
    /\ execution_history = <<>>
    /\ stall_count = 0
    /\ retry_counts = <<>>
    /\ failed_paths = <<>>
    /\ error_history = <<>>
    /\ facts = <<>>
    /\ plan = <<>>
    /\ current_nodes = <<>>
    /\ execution_round = 0
    /\ next_node = "none"
    /\ response = NoResponse
    /\ test_report = MissingReport
    /\ execution_result = NoResult
    /\ workflow_agents = <<>>
    /\ workflow_events = <<>>
    /\ emitted = <<>>
    /\ summary = [total_rounds |-> 0, completed_agents |-> 0, total_agents |-> 0,
                  written |-> FALSE]

Init ==
    /\ chain \in ChainNames
    /\ task = DefaultTask
    /\ memory_faults_left = 0
    /\ InitRest

ledgerVars == <<node_states, execution_history, stall_count, retry_counts,
                failed_paths, error_history>>
roundVars == <<execution_round, next_node, response, execution_result>>
namingVars == <<task, project_config, naming_reply>>
processVars == <<run, managers, memory_faults_left>>

\* run_stream up to the planning phase: _initialize_memory_system
InitializeMemory ==
    /\ pc = "start"
    /\ \E outcome \in MemoryInitOutcomes :
        /\ init_outcome_possible(managers, outcome)
        /\ outcome # "ok" => memory_faults_left > 0
        /\ memory_faults_left' =
                IF outcome = "ok" THEN memory_faults_left ELSE memory_faults_left - 1
        /\ managers' = initialize_memory_system(managers, outcome)
        /\ memory_initialized' = initialize_memory(outcome)
        /\ agent_dependencies' =
                IF initialize_memory(outcome)
                    THEN configure_agent_dependencies(participants)
                    ELSE agent_dependencies
        /\ pc' = IF outcome = "unit_test_raises" THEN "crashed" ELSE "planning"
    /\ UNCHANGED <<chain, test_history, node_instructions, run, round_steps, namingVars, memory_fault, close_calls, ledgerVars, roundVars, facts, plan, current_nodes,
                   test_report, workflow_agents, workflow_events, emitted, summary>>

\* _outer_loop_planning up to the answer of the naming LLM call inside
\* parse_task_and_generate_config
ParseTask ==
    /\ pc \in {"planning", "replan"}
    /\ naming_reply = "none"
    /\ naming_reply' \in NamingOutcomes
    /\ workflow_events' =
            log_event(log_event(workflow_events, "info", "planning_start"),
                      "progress", "naming")
    /\ UNCHANGED <<chain, test_history, agent_dependencies, node_instructions, processVars, round_steps, task, project_config, memory_fault, close_calls,
                   memory_initialized, pc, ledgerVars, roundVars, facts, plan,
                   current_nodes, test_report, workflow_agents, emitted, summary>>

\* the rest of _outer_loop_planning, as the initial planning phase (followed
\* by the entry of _inner_loop_execution) and as the replan of the inner loop
OuterLoopPlanning ==
    /\ pc \in {"planning", "replan"}
    /\ naming_reply # "none"
    /\ naming_reply' = "none"
    /\ \E llm \in {"ok", "facts_raise", "plan_raise"} :
        LET config == parse_task_and_generate_config(task, naming_reply)
            e1 == workflow_events
            e2 == log_event(e1, "success", "facts_done")
            e3 == log_event(e2, "success", "plan_done")
        IN  CASE ~has_naming_keys(config) ->
                    /\ llm = "ok"
                    /\ workflow_events' = e1
                    /\ pc' = "aborted"
                    /\ UNCHANGED <<project_config, facts, plan, current_nodes>>
              [] has_naming_keys(config) /\ llm = "facts_raise" ->
                    /\ project_config' = set_project_config(config, DefaultBaseDir)
                    /\ workflow_events' = e1
                    /\ pc' = "aborted"
                    /\ UNCHANGED <<facts, plan, current_nodes>>
              [] has_naming_keys(config) /\ llm = "plan_raise" ->
                    /\ project_config' = set_project_config(config, DefaultBaseDir)
                    /\ workflow_events' = e2
                    /\ facts' = <<"facts_analysis">>
                    /\ pc' = "aborted"
                    /\ UNCHANGED <<plan, current_nodes>>
              [] has_naming_keys(config) /\ llm = "ok" ->
                    /\ project_config' = set_project_config(config, DefaultBaseDir)
                    /\ facts' = <<"facts_analysis">>
                    /\ plan' = <<"plan_content">>
                    /\ workflow_events' =
                         IF pc = "planning"
                            THEN log_event(e3, "info", "inner_loop_start")
                            ELSE e3
                    /\ current_nodes' = get_source_nodes
                    /\ pc' = "loop"
    /\ UNCHANGED <<chain, test_history, agent_dependencies, node_instructions, processVars, round_steps, task, memory_fault, close_calls,
                   memory_initialized, ledgerVars, roundVars, test_report,
                   workflow_agents, emitted, summary>>

\* the loop condition of _inner_loop_execution
loop_continues == current_nodes # <<>> /\ stall_count < max_stalls

\* one pass of the loop head: selection, log_agent_start, and
\* _execute_node_with_monitoring up to the worker call (state IN_PROGRESS,
\* participant lookup, _prepare_agent_execution)
SelectNode ==
    /\ pc = "loop"
    /\ loop_continues
    /\ execution_round < MaxRounds
    /\ \E llm \in (IF Len(current_nodes) = 1 THEN {"raised"} ELSE LLMOutcomes) :
        LET selected == intelligent_node_selection(current_nodes, llm)
            led == update_node_state(Ledger, selected, "in_progress")
        IN  /\ next_node' = selected
            /\ workflow_agents' = log_agent_start(workflow_agents, selected)
            /\ node_states' = led.node_states
            /\ execution_history' = led.execution_history
            /\ memory_fault' \in
                    prepare_faults(memory_initialized /\ selected \in participants,
                                   memory_faults_left)
            /\ node_instructions' =
                    store_instruction(node_instructions, selected,
                                      instruction_stored(current_nodes, llm),
                                      execution_round + 1)
            /\ round_steps' =
                    steps_before_call(instruction_stored(current_nodes, llm),
                                      selected \in participants, memory_initialized,
                                      memory_fault')
    /\ memory_faults_left' =
            IF memory_fault' = "none" THEN memory_faults_left
                                      ELSE memory_faults_left - 1
    /\ execution_round' = execution_round + 1
    /\ pc' = "invoke"
    /\ UNCHANGED <<chain, test_history, agent_dependencies, run, managers, namingVars, close_calls,
                   memory_initialized, stall_count, retry_counts,
                   failed_paths, error_history, facts, plan, current_nodes,
                   response, test_report, execution_result, workflow_events,
                   emitted, summary>>

\* the worker returns a response: analysis, state transition, stall counter,
\* then log_agent_complete back in the loop
WorkerReturns ==
    /\ pc = "invoke"
    /\ next_node \in participants
    /\ \E resp \in Responses :
       \E rep \in (IF next_node = "UnitTestAgent" THEN Reports ELSE {MissingReport}) :
        LET result_analysis == analyze_execution_result(next_node, resp, rep)
            reselect == should_reselect_agent(retry_counts, next_node, result_analysis)
            led == update_node_state(Ledger, next_node,
                       IF result_analysis.success THEN "completed" ELSE "failed")
        IN  /\ response' = resp
            /\ test_report' = rep
            /\ node_states' = led.node_states
            /\ execution_history' = led.execution_history
            /\ stall_count' = stall_after(stall_count, result_analysis.success)
            /\ execution_result' =
                 [success |-> result_analysis.success,
                  analysis |-> result_analysis,
                  node |-> next_node,
                  needs_reselection |-> reselect,
                  raised |-> FALSE]
            /\ workflow_agents' =
                 log_agent_complete(workflow_agents, next_node, result_analysis.success)
            /\ memory_fault' \in record_faults(memory_initialized /\ ~reselect,
                                                memory_faults_left)
            /\ round_steps' =
                    round_steps \o steps_after_call(next_node, memory_initialized,
                                                    reselect, memory_fault')
            /\ test_history' =
                    IF "unit_test_record" \in
                            StepsOf(steps_after_call(next_node, memory_initialized,
                                                     reselect, memory_fault'))
                        THEN record_complete_unit_test_output(test_history,
                                    "response_object", result_analysis)
                        ELSE test_history
    /\ memory_faults_left' =
            IF memory_fault' = "none" THEN memory_faults_left
                                      ELSE memory_faults_left - 1
    /\ pc' = "decide"
    /\ UNCHANGED <<chain, agent_dependencies, node_instructions, run, managers, namingVars, close_calls, memory_initialized, retry_counts, failed_paths,
                   error_history, facts, plan, current_nodes, execution_round,
                   next_node, workflow_events, emitted, summary>>

\* the except clause of _execute_node_with_monitoring: the participant lookup
\* fails (the worker is not part of the chain) or the worker call raises
ExecutionRaises ==
    /\ pc = "invoke"
    /\ LET led == update_node_state(Ledger, next_node, "failed")
       IN  /\ node_states' = led.node_states
           /\ execution_history' = led.execution_history
    /\ stall_count' = stall_after(stall_count, FALSE)
    /\ execution_result' =
         [success |-> FALSE, analysis |-> ExceptionAnalysis, node |-> next_node,
          needs_reselection |-> FALSE, raised |-> TRUE]
    /\ workflow_agents' = log_agent_complete(workflow_agents, next_node, FALSE)
    /\ memory_fault' = "none"
    /\ round_steps' = round_steps \o steps_when_raised(next_node \in participants)
    /\ pc' = "decide"
    /\ UNCHANGED <<chain, test_history, agent_dependencies, node_instructions, processVars, namingVars, close_calls, memory_initialized, retry_counts, failed_paths,
                   error_history, facts, plan, current_nodes, execution_round,
                   next_node, response, test_report, workflow_events, emitted,
                   summary>>

\* mutant of emit_text: the event is dropped
emit_text_dropped(events, node) == events

\* yield TextMessage(source=next_node, ...) at the end of the loop body
emit_text(events, node) ==
    Append(events, [type |-> "text", source |-> node])

\* the rest of the loop body: reselection, replan check, router, text event
Decide ==
    /\ pc = "decide"
    /\ LET alternative_nodes == find_alternative_nodes(next_node, participants)
           rule == router_rule(next_node, execution_result, retry_counts, max_retries)
           e1 == IF execution_result.needs_reselection
                    THEN log_event(workflow_events, "warning", "needs_reselection")
                    ELSE workflow_events
           e2 == IF execution_result.needs_reselection
                    THEN log_event(e1, "warning", "no_alternative")
                    ELSE e1
       IN  IF execution_result.needs_reselection /\ alternative_nodes # <<>>
             THEN /\ current_nodes' = alternative_nodes
                  /\ workflow_events' = log_event(e1, "info", "alternative_selected")
                  /\ pc' = "loop"
                  /\ UNCHANGED <<node_states, retry_counts, error_history, emitted>>
           ELSE IF should_replan(stall_count, max_stalls)
             THEN /\ workflow_events' = log_event(e2, "warning", "replan")
                  /\ pc' = "replan"
                  /\ UNCHANGED <<current_nodes, node_states, retry_counts,
                                 error_history, emitted>>
           ELSE /\ current_nodes' = next_executable_nodes(next_node, execution_result,
                                        retry_counts, participants, max_retries)
                /\ node_states' = router_node_states(node_states, rule)
                /\ retry_counts' = router_retry_counts(retry_counts, rule)
                /\ error_history' = router_error_history(error_history, rule,
                                        execution_result.analysis)
                /\ workflow_events' = e2
                /\ emitted' = emit_text(emitted, next_node)
                /\ pc' = "loop"
    /\ response' = NoResponse
    /\ test_report' = MissingReport
    /\ execution_result' = NoResult
    /\ memory_fault' = "none"
    /\ round_steps' = <<>>
    /\ UNCHANGED <<chain, test_history, agent_dependencies, node_instructions, processVars, namingVars, close_calls, memory_initialized,
                   execution_history, stall_count,
                   failed_paths, facts, plan, execution_round, next_node,
                   workflow_agents, summary>>

\* the loop is left: summary, log_workflow_complete, final result
Finalize ==
    /\ pc = "loop"
    /\ ~loop_continues
    /\ LET completed_agents ==
               Cardinality({i \in 1..Len(workflow_agents) :
                               workflow_agents[i].status = "completed"})
       IN  summary' = [total_rounds |-> execution_round,
                       completed_agents |-> completed_agents,
                       total_agents |-> Len(workflow_agents),
                       written |-> TRUE]
    /\ emitted' = Append(emitted, [type |-> "stop", source |-> "orchestrator"])
    /\ pc' = "done"
    /\ UNCHANGED <<chain, test_history, agent_dependencies, node_instructions, processVars, round_steps, namingVars, memory_fault, close_calls,
                   memory_initialized, ledgerVars, roundVars, facts, plan,
                   current_nodes, test_report, workflow_agents, workflow_events>>

\* the finally clause of run_stream: _cleanup_memory_system, after the loop
\* has ended or while an exception of the planning phase propagates
Cleanup ==
    /\ pc \in {"done", "aborted"}
    /\ IF memory_initialized
          THEN \E raises_at \in 0..Len(MemoryStores) :
                    /\ raises_at # 0 => memory_faults_left > 0
                    /\ memory_faults_left' =
                            IF raises_at = 0 THEN memory_faults_left
                                             ELSE memory_faults_left - 1
                    /\ close_calls' = cleanup_memory_system(raises_at)
                    /\ managers' = closed_managers(managers, close_calls')
          ELSE UNCHANGED <<close_calls, managers, memory_faults_left>>
    /\ pc' = IF pc = "done" THEN "finished" ELSE "raised"
    /\ UNCHANGED <<chain, test_history, agent_dependencies, node_instructions, run, round_steps, namingVars, memory_fault, memory_initialized,
                   ledgerVars, roundVars, facts, plan, current_nodes, test_report,
                   workflow_agents, workflow_events, emitted, summary>>

Next ==
    \/ InitializeMemory
    \/ ParseTask
    \/ OuterLoopPlanning
    \/ SelectNode
    \/ WorkerReturns
    \/ ExecutionRaises
    \/ Decide
    \/ Finalize
    \/ Cleanup

Spec == Init /\ [][Next]_vars

\* runs of the prototype chain over every task
InitNaming ==
    /\ chain = "prototype"
    /\ task \in Tasks
    /\ memory_faults_left = 0
    /\ InitRest

SpecNaming == InitNaming /\ [][Next]_vars

\* the memory operations that raise in one process
MaxMemoryFaults == 1

\* runs of the two short chains in which memory operations raise
InitMemory ==
    /\ chain \in {"prototype", "minimal"}
    /\ task = DefaultTask
    /\ memory_faults_left = MaxMemoryFaults
    /\ InitRest

SpecMemory == InitMemory /\ [][Next]_vars

\* the runs of one process
MaxRuns == 2

\* the process goes on after a run has ended: a new GraphFlowOrchestrator is
\* constructed and its run_stream is started; the memory managers are
\* module-level singletons and stay as the last run left them
NextRun ==
    /\ pc \in {"finished", "raised", "crashed"}
    /\ run < MaxRuns
    /\ run' = run + 1
    /\ pc' = "start"
    /\ round_steps' = <<>>
    /\ node_instructions' = NoInstructions
    /\ project_config' = NoConfig
    /\ naming_reply' = "none"
    /\ memory_fault' = "none"
    /\ close_calls' = <<>>
    /\ memory_initialized' = FALSE
    /\ node_states' = [a \in Agents |->
                        IF a \in ChainAgents(chain) THEN "not_started" ELSE "absent"]
    /\ execution_history' = <<>>
    /\ stall_count' = 0
    /\ retry_counts' = <<>>
    /\ failed_paths' = <<>>
    /\ error_history' = <<>>
    /\ facts' = <<>>
    /\ plan' = <<>>
    /\ current_nodes' = <<>>
    /\ execution_round' = 0
    /\ next_node' = "none"
    /\ response' = NoResponse
    /\ test_report' = MissingReport
    /\ execution_result' = NoResult
    /\ workflow_agents' = <<>>
    /\ workflow_events' = <<>>
    /\ emitted' = <<>>
    /\ summary' = [total_rounds |-> 0, completed_agents |-> 0, total_agents |-> 0,
                   written |-> FALSE]
    /\ UNCHANGED <<chain, test_history, agent_dependencies, task, managers, memory_faults_left>>

NextRuns == Next \/ NextRun

SpecRuns == InitMemory /\ [][NextRuns]_vars

\* the arguments set_project_config is called with
ProjectNames == {"string_utils", "demo"}
FileNames == {"main.py", "string_operations.py", "test_main.py",
              "test_string_operations.py"}
BaseDirs == {DefaultBaseDir, <<"/", "tmp">>, <<"out", "/", "v2">>, <<>>}

\* a TaskLedger used on its own, before any run
InitLedger ==
    /\ chain = "prototype"
    /\ task = DefaultTask
    /\ memory_faults_left = 0
    /\ InitRest

\* a call of TaskLedger.set_project_config
SetProjectConfigCall ==
    /\ pc = "start"
    /\ \E name \in ProjectNames, main \in FileNames, test \in FileNames,
          base \in BaseDirs :
            project_config' = set_project_config(NamingConfig(name, main, test), base)
    /\ UNCHANGED <<chain, test_history, agent_dependencies, node_instructions, processVars, round_steps, task, naming_reply,
                   memory_fault, close_calls, memory_initialized, pc, ledgerVars,
                   roundVars, facts, plan, current_nodes, test_report,
                   workflow_agents, workflow_events, emitted, summary>>

SpecLedger == InitLedger /\ [][SetProjectConfigCall]_vars

\* the longest candidate list handed to the selector
MaxCandidates == 2

\* the non-empty candidate lists: workers without repetition
CandidateLists ==
    {c \in UNION {[1..n -> Agents] : n \in 1..MaxCandidates} :
        \A i, j \in 1..Len(c) : i # j => c[i] # c[j]}

\* the entry of the inner loop of a prototype run, with any candidate list in
\* the place of the source nodes
InitSelector ==
    /\ chain = "prototype"
    /\ task = DefaultTask
    /\ project_config = set_project_config(get_default_project_config(DefaultTask),
                                           DefaultBaseDir)
    /\ naming_reply = "none"
    /\ memory_fault = "none"
    /\ close_calls = <<>>
    /\ run = 1
    /\ managers = initialize_memory_system(NoManagers, "ok")
    /\ memory_faults_left = 0
    /\ round_steps = <<>>
    /\ test_history = <<>>
    /\ node_instructions = NoInstructions
    /\ agent_dependencies = configure_agent_dependencies(ChainAgents(chain))
    /\ memory_initialized = TRUE
    /\ pc = "loop"
    /\ node_states = [a \in Agents |->
                        IF a \in ChainAgents(chain) THEN "not_started" ELSE "absent"]
    /\ execution_history = <<>>
    /\ stall_count = 0
    /\ retry_counts = <<>>
    /\ failed_paths = <<>>
    /\ error_history = <<>>
    /\ facts = <<"facts_analysis">>
    /\ plan = <<"plan_content">>
    /\ current_nodes \in CandidateLists
    /\ execution_round = 0
    /\ next_node = "none"
    /\ response = NoResponse
    /\ test_report = MissingReport
    /\ execution_result = NoResult
    /\ workflow_agents = <<>>
    /\ workflow_events = <<>>
    /\ emitted = <<>>
    /\ summary = [total_rounds |-> 0, completed_agents |-> 0, total_agents |-> 0,
                  written |-> FALSE]

\* the run from the entry of the inner loop on
NextLoop ==
    \/ SelectNode
    \/ WorkerReturns
    \/ ExecutionRaises
    \/ Decide
    \/ ParseTask
    \/ OuterLoopPlanning
    \/ Finalize
    \/ Cleanup

SpecSelector == InitSelector /\ [][NextLoop]_vars

\* retry_counts after a host has called ProgressLedger.increment_retry for
\* worker w up to limit or limit + 1 times, or not at all
RetryCountsOf(w, limit) ==
    {<<>>} \cup {[a \in {w} |-> k] : k \in {limit, limit + 1}}

\* the entry of the inner loop with one candidate, whose retry counter a host
\* may have advanced through increment_retry
InitRouter ==
    /\ chain \in {"prototype", "minimal"}
    /\ task = DefaultTask
    /\ project_config = set_project_config(get_default_project_config(DefaultTask),
                                           DefaultBaseDir)
    /\ naming_reply = "none"
    /\ memory_fault = "none"
    /\ close_calls = <<>>
    /\ run = 1
    /\ managers = initialize_memory_system(NoManagers, "ok")
    /\ memory_faults_left = 0
    /\ round_steps = <<>>
    /\ test_history = <<>>
    /\ node_instructions = NoInstructions
    /\ agent_dependencies = configure_agent_dependencies(ChainAgents(chain))
    /\ memory_initialized = TRUE
    /\ pc = "loop"
    /\ node_states = [a \in Agents |->
                        IF a \in ChainAgents(chain) THEN "not_started" ELSE "absent"]
    /\ execution_history = <<>>
    /\ stall_count = 0
    /\ \E w \in Agents :
        /\ current_nodes = <<w>>
        /\ retry_counts \in RetryCountsOf(w, ChainMaxRetries(chain))
    /\ failed_paths = <<>>
    /\ error_history = <<>>
    /\ facts = <<"facts_analysis">>
    /\ plan = <<"plan_content">>
    /\ execution_round = 0
    /\ next_node = "none"
    /\ response = NoResponse
    /\ test_report = MissingReport
    /\ execution_result = NoResult
    /\ workflow_agents = <<>>
    /\ workflow_events = <<>>
    /\ emitted = <<>>
    /\ summary = [total_rounds |-> 0, completed_agents |-> 0, total_agents |-> 0,
                  written |-> FALSE]

SpecRouter == InitRouter /\ [][NextLoop]_vars

\* the loop head of a minimal run after a first round in which the planner
\* failed, with any candidate list in the place of the router's answer
InitReselect ==
    /\ chain = "minimal"
    /\ task = DefaultTask
    /\ project_config = set_project_config(get_default_project_config(DefaultTask),
                                           DefaultBaseDir)
    /\ naming_reply = "none"
    /\ memory_fault = "none"
    /\ close_calls = <<>>
    /\ run = 1
    /\ managers = initialize_memory_system(NoManagers, "ok")
    /\ memory_faults_left = 0
    /\ round_steps = <<>>
    /\ test_history = <<>>
    /\ node_instructions =
            store_instruction(NoInstructions, "CodePlanningAgent", TRUE, 1)
    /\ agent_dependencies = configure_agent_dependencies(ChainAgents(chain))
    /\ memory_initialized = TRUE
    /\ pc = "loop"
    /\ LET fresh == [node_states |-> [a \in Agents |->
                                        IF a \in ChainAgents(chain) THEN "not_started"
                                                                    ELSE "absent"],
                     execution_history |-> <<>>]
           led == update_node_state(
                      update_node_state(fresh, "CodePlanningAgent", "in_progress"),
                      "CodePlanningAgent", "failed")
       IN  /\ node_states = led.node_states
           /\ execution_history = led.execution_history
    /\ stall_count = stall_after(0, FALSE)
    /\ retry_counts = <<>>
    /\ failed_paths = <<>>
    /\ error_history = <<>>
    /\ facts = <<"facts_analysis">>
    /\ plan = <<"plan_content">>
    /\ current_nodes \in CandidateLists
    /\ execution_round = 1
    /\ next_node = "CodePlanningAgent"
    /\ response = NoResponse
    /\ test_report = MissingReport
    /\ execution_result = NoResult
    /\ workflow_agents =
            log_agent_complete(log_agent_start(<<>>, "CodePlanningAgent"),
                               "CodePlanningAgent", FALSE)
    /\ workflow_events = <<>>
    /\ emitted = emit_text(<<>>, "CodePlanningAgent")
    /\ summary = [total_rounds |-> 0, completed_agents |-> 0, total_agents |-> 0,
                  written |-> FALSE]

SpecReselect == InitReselect /\ [][NextLoop]_vars

----------------------------------------------------------------------------
(* The analyzer on its own: the combined content of a response *)

\* the longest inner_messages list of a response
MaxInner == 1

\* the lengths a message content is drawn with
ContentLengths == {0, 25, 50, 51}

\* the completion markers a message content may contain
MarkerTexts == {"PLANNING_COMPLETE", "CODING_COMPLETE", "Successfully wrote content"}

\* completion_markers.get(node_name, [])
completion_markers(node_name) ==
    CASE node_name = "CodePlanningAgent" -> {"PLANNING_COMPLETE"}
      [] node_name = "FunctionWritingAgent" ->
            {"CODING_COMPLETE", "Successfully wrote content"}
      [] node_name = "TestGenerationAgent" ->
            {"TESTING_COMPLETE", "Successfully wrote content"}
      [] node_name = "UnitTestAgent" -> {"UNIT_TESTING_COMPLETE"}
      [] node_name = "RefactoringAgent" -> {"REFACTORING_COMPLETE"}
      [] node_name = "CodeScanningAgent" -> {"SCANNING_COMPLETE"}
      [] node_name = "ProjectStructureAgent" -> {"PROJECT_STRUCTURE_COMPLETE"}
      [] OTHER -> {}

\* a message content: its length and the markers that occur in it (a marker
\* is longer than any content of length 0)
MessageContents ==
    {[length |-> n, markers |-> m] :
        n \in ContentLengths, m \in {{}} \cup {{t} : t \in MarkerTexts}}
    \ {[length |-> 0, markers |-> {t}] : t \in MarkerTexts}

\* the responses of a worker: chat_message and inner_messages
RawResponses ==
    {[chat_message |-> c, inner_messages |-> inner] :
        c \in MessageContents,
        inner \in UNION {[1..n -> MessageContents] : n \in 0..MaxInner}}

\* all_content after filter(None, ...): the empty contents are dropped
all_content(raw) ==
    SelectSeq(<<raw.chat_message>> \o raw.inner_messages,
              LAMBDA c : c.length > 0)

RECURSIVE joined_length(_)
\* len(" ".join(parts)): one separator between two parts
joined_length(parts) ==
    IF parts = <<>> THEN 0
    ELSE IF Len(parts) = 1 THEN parts[1].length
    ELSE parts[1].length + 1 + joined_length(Tail(parts))

\* mutant of long_enough: a content of exactly 50 characters is enough
long_enough_inclusive(length) == length >= 50

\* len(combined_content) > 50
long_enough(length) == length > 50

\* combined_content as the analyzer reads it: marker of this worker present,
\* long enough
combined_content(node_name, raw) ==
    LET parts == all_content(raw)
    IN  [marker |-> \E k \in 1..Len(parts) :
                        parts[k].markers \cap completion_markers(node_name) # {},
         long |-> long_enough(joined_length(parts)),
         words |-> {}]

\* the analyzer about to be called for any worker with any response
InitAnalyzer ==
    /\ chain = "standard"
    /\ task = DefaultTask
    /\ memory_faults_left = 0
    /\ next_node \in Agents
    /\ response \in RawResponses
    /\ test_report \in {MissingReport, CorruptReport}
    /\ run = 1
    /\ managers = NoManagers
    /\ round_steps = <<>>
    /\ test_history = <<>>
    /\ node_instructions = NoInstructions
    /\ agent_dependencies = NoDependencies
    /\ project_config = NoConfig
    /\ naming_reply = "none"
    /\ memory_fault = "none"
    /\ close_calls = <<>>
    /\ memory_initialized = FALSE
    /\ pc = "start"
    /\ node_states = [a \in Agents |->
                        IF a \in ChainAgents(chain) THEN "not_started" ELSE "absent"]
    /\ execution_history = <<>>
    /\ stall_count = 0
    /\ retry_counts = <<>>
    /\ failed_paths = <<>>
    /\ error_history = <<>>
    /\ facts = <<>>
    /\ plan = <<>>
    /\ current_nodes = <<>>
    /\ execution_round = 0
    /\ execution_result = NoResult
    /\ workflow_agents = <<>>
    /\ workflow_events = <<>>
    /\ emitted = <<>>
    /\ summary = [total_rounds |-> 0, completed_agents |-> 0, total_agents |-> 0,
                  written |-> FALSE]

\* one call of _analyze_execution_result
AnalyzeCall ==
    /\ pc = "start"
    /\ execution_result' =
         LET result_analysis ==
                analyze_execution_result(next_node,
                    [kind |-> "ok", content |-> combined_content(next_node, response)],
                    test_report)
         IN  [success |-> result_analysis.success,
              analysis |-> result_analysis,
              node |-> next_node,
              needs_reselection |-> FALSE,
              raised |-> FALSE]
    /\ pc' = "analyzed"
    /\ UNCHANGED <<chain, test_history, agent_dependencies, node_instructions, processVars, round_steps, namingVars,
                   memory_fault, close_calls, memory_initialized, ledgerVars,
                   facts, plan, current_nodes, execution_round, next_node,
                   response, test_report, workflow_agents, workflow_events,
                   emitted, summary>>

SpecAnalyzer == InitAnalyzer /\ [][AnalyzeCall]_vars

----------------------------------------------------------------------------
(* The unit-test memory on its own: records of raw test outputs *)

\* the most lines of a raw output
MaxLines == 3

\* the lines a raw output is drawn from: headers with and without blanks
\* around them, names with a colon, an empty name, and lines without header
OutputLines ==
    {<<>>,
     <<"FAIL", ":", " ", "test_a">>,
     <<"ERROR", ":", " ", "test_b">>,
     <<" ", "FAIL", ":", " ", "test_b">>,
     <<"FAIL", ":", "test_a", ":", "test_b", " ">>,
     <<"ERROR", ":">>,
     <<"test_a", " ", "FAIL", ":">>,
     <<"Traceback">>}

RawOutputs == UNION {[1..n -> OutputLines] : n \in 0..MaxLines}

\* a unit-test memory used on its own, before any record
InitTestMemory ==
    /\ chain = "standard"
    /\ task = DefaultTask
    /\ memory_faults_left = 0
    /\ InitRest

\* one call of record_complete_test_execution with any raw output
RecordTestExecution ==
    /\ pc = "start"
    /\ test_history = <<>>
    /\ \E raw_output \in RawOutputs, success \in BOOLEAN :
            test_history' = record_complete_test_execution(test_history,
                                                           raw_output, success)
    /\ UNCHANGED <<chain, agent_dependencies, node_instructions, run, managers,
                   memory_faults_left, round_steps, namingVars, memory_fault,
                   close_calls, memory_initialized, pc, ledgerVars, roundVars,
                   facts, plan, current_nodes, test_report, workflow_agents,
                   workflow_events, emitted, summary>>

SpecTestMemory == InitTestMemory /\ [][RecordTestExecution]_vars

----------------------------------------------------------------------------
(* Readings of the execution history and the workflow log *)

RECURSIVE NodesInState(_, _)
\* the workers of the history entries in the given state, in history order
NodesInState(h, state) ==
    IF h = <<>> THEN <<>>
    ELSE IF h[Len(h)].state = state
            THEN Append(NodesInState(SubSeq(h, 1, Len(h) - 1), state), h[Len(h)].node)
            ELSE NodesInState(SubSeq(h, 1, Len(h) - 1), state)

IsPrefix(s, t) == Len(s) <= Len(t) /\ SubSeq(t, 1, Len(s)) = s

\* the rounds started so far, and the rounds classified as success
InvokedOrder == NodesInState(execution_history, "in_progress")
CompletedOrder == NodesInState(execution_history, "completed")
FailedOrder == NodesInState(execution_history, "failed")

Count(s, x) == Cardinality({i \in 1..Len(s) : s[i] = x})

HappyOrder ==
    <<"CodePlanningAgent", "FunctionWritingAgent", "TestGenerationAgent",
      "UnitTestAgent", "CodeScanningAgent", "ProjectStructureAgent">>

\* number of runs of _outer_loop_planning started so far
PlanningRuns ==
    Cardinality({i \in 1..Len(workflow_events) :
                    workflow_events[i].message = "planning_start"})

Entry(n, st) == [node |-> n, state |-> st]

RECURSIVE MicroLoopPairs(_)
\* number of (failed UnitTestAgent round, successful RefactoringAgent round)
\* pairs that end the history back to back
MicroLoopPairs(h) ==
    IF /\ Len(h) >= 4
       /\ SubSeq(h, Len(h) - 3, Len(h)) =
            <<Entry("UnitTestAgent", "in_progress"), Entry("UnitTestAgent", "failed"),
              Entry("RefactoringAgent", "in_progress"), Entry("RefactoringAgent", "completed")>>
        THEN 1 + MicroLoopPairs(SubSeq(h, 1, Len(h) - 4))
        ELSE 0

----------------------------------------------------------------------------
(* Claims *)

\* C1: in the standard chain, while every round is classified as success the
\* workers are started and completed in the order planner, writer, test
\* generator, test runner, scanner, structurer, the refactor worker is never
\* started, and once the structurer has completed the loop ends with
\* failed_paths empty, stall_count 0 and success rate 1.
C1_HappyPath ==
    (chain = "standard" /\ FailedOrder = <<>>) =>
        /\ IsPrefix(InvokedOrder, HappyOrder)
        /\ IsPrefix(CompletedOrder, HappyOrder)
        /\ (CompletedOrder = HappyOrder /\ pc = "loop") => ~loop_continues
        /\ pc = "done" =>
            /\ CompletedOrder = HappyOrder
            /\ InvokedOrder = HappyOrder
            /\ failed_paths = <<>>
            /\ stall_count = 0
            /\ summary.total_agents > 0
            /\ summary.completed_agents = summary.total_agents

C1_Witness ==
    /\ chain = "standard"
    /\ pc = "done"
    /\ FailedOrder = <<>>
    /\ CompletedOrder = HappyOrder

\* C2: in the standard chain every failed UnitTestAgent round is followed, as
\* the next round, by a RefactoringAgent round: the next history entry starts
\* the refactor worker, or the failed round is the latest entry and the driver
\* is deciding or holds exactly the refactor worker as its candidate.
C2_TestFailureToRefactor ==
    chain = "standard" =>
        \A i \in 1..Len(execution_history) :
            execution_history[i] = Entry("UnitTestAgent", "failed") =>
                IF i < Len(execution_history)
                    THEN execution_history[i + 1] = Entry("RefactoringAgent", "in_progress")
                    ELSE \/ pc = "decide"
                         \/ /\ pc = "loop"
                            /\ current_nodes = <<"RefactoringAgent">>
                            /\ loop_continues

C2_Witness ==
    /\ chain = "standard"
    /\ \E i \in 1..Len(execution_history) :
        /\ execution_history[i] = Entry("UnitTestAgent", "failed")
        /\ i < Len(execution_history)
        /\ execution_history[i + 1] = Entry("RefactoringAgent", "in_progress")

\* C3 (as claimed): the test-runner -> refactor -> test-runner micro-loop
\* repeats at most max_retries + 1 times.
C3_MicroLoopBounded ==
    MicroLoopPairs(execution_history) <= max_retries + 1

\* C4 (as claimed): when every RefactoringAgent round fails for want of its
\* completion marker, the run ends with RefactoringAgent started exactly
\* max_retries + 1 times and listed in failed_paths.
C4_RefactorExhausted ==
    (/\ chain = "standard"
     /\ pc = "done"
     /\ Count(InvokedOrder, "RefactoringAgent") >= 1
     /\ Count(CompletedOrder, "RefactoringAgent") = 0) =>
        /\ Count(InvokedOrder, "RefactoringAgent") = max_retries + 1
        /\ \E i \in 1..Len(failed_paths) : failed_paths[i] = "RefactoringAgent"


\* C5: stall_count stays within 0..max_stalls, and it changes only when a
\* round ends: by +1 on a round classified as failure (a raised exception
\* included), by -1 floored at 0 on a round classified as success.
StallStep ==
    /\ stall_count' # stall_count => (pc = "invoke" /\ pc' = "decide")
    /\ (pc = "invoke" /\ pc' = "decide") =>
          IF execution_result'.success
              THEN stall_count' = (IF stall_count > 0 THEN stall_count - 1 ELSE 0)
              ELSE stall_count' = stall_count + 1

C5_StallBounded ==
    /\ [](stall_count \in 0..max_stalls)
    /\ [][StallStep]_vars

C5_Witness ==
    /\ pc = "done"
    /\ stall_count = max_stalls
    /\ CompletedOrder # <<>>

\* C6: while every round is classified as failure, stall_count counts the
\* rounds and there are at most max_stalls of them; the planning phase is
\* re-run once, when stall_count has reached max_stalls, after which the loop
\* condition is false and the run ends.
C6_AllFail ==
    (CompletedOrder = <<>>) =>
        /\ execution_round <= max_stalls
        /\ stall_count = Len(FailedOrder)
        /\ PlanningRuns <= 2
        /\ (pc = "replan" \/ PlanningRuns = 2) =>
              (stall_count = max_stalls /\ execution_round = max_stalls)
        /\ (PlanningRuns = 2 /\ pc = "loop") => ~loop_continues
        /\ pc = "done" => PlanningRuns = 2

C6_Witness ==
    /\ pc = "done"
    /\ CompletedOrder = <<>>
    /\ PlanningRuns = 2
    /\ Len(FailedOrder) = max_stalls

\* C7 (as claimed): for a UnitTestAgent response holding the completion
\* marker, a readable report with failures or errors gives success = false
\* with a reason carrying both counts, a missing report with 'failed', 'error'
\* or 'assertion' in the content gives success = false, and every other case
\* gives success = true.
C7_UnitTestVerdict ==
    (/\ pc = "decide"
     /\ next_node = "UnitTestAgent"
     /\ response.kind = "ok"
     /\ response.content.marker) =>
        LET a == execution_result.analysis
        IN  IF /\ test_report.exists
               /\ test_report.readable
               /\ (test_report.failures > 0 \/ test_report.errors > 0)
                THEN /\ ~a.success
                     /\ \E i \in 1..Len(a.failure_reasons) :
                          a.failure_reasons[i] =
                              Reason("report", test_report.failures, test_report.errors)
            ELSE IF /\ ~test_report.exists
                    /\ response.content.words \cap {"failed", "error", "assertion"} # {}
                THEN ~a.success
            ELSE a.success

\* a key that is not in node_states yet reads as not started
StateOf(st) == IF st = "absent" THEN "not_started" ELSE st

ClaimedTransitions ==
    {<<"not_started", "in_progress">>, <<"in_progress", "completed">>,
     <<"in_progress", "failed">>, <<"failed", "retrying">>,
     <<"failed", "not_started">>, <<"retrying", "in_progress">>}

\* C8 (as claimed): every change of node_states[w] is one of the listed
\* transitions or the router's completed -> not_started reset of the test
\* runner; a retried worker is never moved from failed straight to in_progress.
C8_Transitions ==
    [][\A w \in Agents :
          StateOf(node_states'[w]) # StateOf(node_states[w]) =>
              \/ <<StateOf(node_states[w]), StateOf(node_states'[w])>> \in ClaimedTransitions
              \/ /\ w = "UnitTestAgent"
                 /\ node_states[w] = "completed"
                 /\ node_states'[w] = "not_started"]_vars

InProgressNodes == {w \in Agents : node_states[w] = "in_progress"}

\* C9 (as claimed): inside the inner loop exactly one worker is in_progress.
C9_ExactlyOneInProgress ==
    pc \in {"loop", "invoke", "decide"} => Cardinality(InProgressNodes) = 1

\* C9 (amended): at most one worker is in_progress: the selected worker while
\* its round is being executed, and no worker between rounds.
C9_AtMostOneInProgress ==
    InProgressNodes = (IF pc = "invoke" THEN {next_node} ELSE {})

C9_Witness ==
    /\ pc = "invoke"
    /\ InProgressNodes = {next_node}
    /\ execution_round > 1

\* C10: a worker is put back to not_started only by the router step that
\* follows a successful RefactoringAgent round, and only UnitTestAgent is;
\* so no worker leaves completed for not_started in any other step.
C10_ResetOnlyByRouter ==
    [][\A w \in Agents :
          (node_states'[w] = "not_started" /\ node_states[w] # "not_started") =>
              /\ w = "UnitTestAgent"
              /\ pc = "decide"
              /\ next_node = "RefactoringAgent"
              /\ execution_result.success]_vars

C10_Witness ==
    /\ pc = "loop"
    /\ current_nodes = <<"UnitTestAgent">>
    /\ node_states["UnitTestAgent"] = "not_started"
    /\ Count(CompletedOrder, "RefactoringAgent") >= 1


\* C11: the router step after a successful RefactoringAgent round leaves
\* node_states[UnitTestAgent] = not_started and the retry count of
\* UnitTestAgent 0 and returns exactly [UnitTestAgent]; the round started
\* after a completed RefactoringAgent round is a UnitTestAgent round.
AfterRefactorSuccess ==
    (pc = "decide" /\ next_node = "RefactoringAgent" /\ execution_result.success) =>
        /\ pc' = "loop"
        /\ node_states'["UnitTestAgent"] = "not_started"
        /\ retry_count_of(retry_counts', "UnitTestAgent") = 0
        /\ current_nodes' = <<"UnitTestAgent">>

C11_RefactorSuccessReset ==
    /\ [][AfterRefactorSuccess]_vars
    /\ [](\A i \in 1..Len(execution_history) :
            (execution_history[i] = Entry("RefactoringAgent", "completed")
                /\ i < Len(execution_history)) =>
                    execution_history[i + 1] = Entry("UnitTestAgent", "in_progress"))

C11_Witness ==
    \E i \in 1..Len(execution_history) :
        /\ execution_history[i] = Entry("RefactoringAgent", "completed")
        /\ i < Len(execution_history)
        /\ execution_history[i + 1] = Entry("UnitTestAgent", "in_progress")

\* the router has run in this step (the branch of Decide that reaches it)
RouterStep == pc = "decide" /\ pc' = "loop" /\ Len(emitted') = Len(emitted) + 1

\* C12 (as claimed): whenever the router returns [RefactoringAgent] it has
\* appended, in that step, one error_history entry with source UnitTestAgent
\* and the analysis' message content as test output; no other step appends.
C12_ErrorRecordedForRefactor ==
    [][/\ (RouterStep /\ current_nodes' = <<"RefactoringAgent">>) =>
            error_history' = Append(error_history,
                [source |-> "UnitTestAgent",
                 errors |-> execution_result.analysis.failure_reasons,
                 test_output |-> execution_result.analysis.message_content])
       /\ error_history' # error_history =>
            (RouterStep /\ current_nodes' = <<"RefactoringAgent">>)]_vars

\* C12 (amended): whenever the router returns [RefactoringAgent] for a
\* UnitTestAgent round it has appended, in that step, one error_history entry
\* with source UnitTestAgent and the analysis' message content as test output;
\* the retry of a failed RefactoringAgent round returns [RefactoringAgent]
\* without appending; error_history changes in no other step.
C12_ErrorRecordedForTestFailure ==
    [][/\ (RouterStep /\ current_nodes' = <<"RefactoringAgent">>) =>
            IF next_node = "UnitTestAgent"
                THEN error_history' = Append(error_history,
                        [source |-> "UnitTestAgent",
                         errors |-> execution_result.analysis.failure_reasons,
                         test_output |-> execution_result.analysis.message_content])
                ELSE next_node = "RefactoringAgent" /\ error_history' = error_history
       /\ error_history' # error_history =>
            (RouterStep /\ next_node = "UnitTestAgent"
                /\ current_nodes' = <<"RefactoringAgent">>)]_vars

C12_Witness ==
    /\ pc = "loop"
    /\ current_nodes = <<"RefactoringAgent">>
    /\ Len(error_history) >= 1
    /\ error_history[Len(error_history)].test_output.words # {}

\* C13: the retry count of every worker stays at most max_retries + 1.
C13_RetryBounded ==
    \A w \in Agents : retry_count_of(retry_counts, w) <= max_retries + 1

C13_Witness ==
    /\ pc = "loop"
    /\ current_nodes = <<next_node>>
    /\ node_states[next_node] = "failed"
    /\ retry_count_of(retry_counts, next_node) <= max_retries

\* C14 (as claimed): in the prototype chain, once the writer has completed
\* the router returns the empty list and no further round is started.
C14_PrototypeEnds ==
    (/\ chain = "prototype"
     /\ \E i \in 1..Len(execution_history) :
            execution_history[i] = Entry("FunctionWritingAgent", "completed")) =>
        /\ execution_history[Len(execution_history)] =
                Entry("FunctionWritingAgent", "completed")
        /\ pc = "loop" => current_nodes = <<>>

\* C15 (as claimed): in the minimal chain no round is started for
\* RefactoringAgent or CodeScanningAgent, and an all-success run ends with the
\* completed sequence planner, writer, test generator, test runner.
C15_MinimalStaysInChain ==
    chain = "minimal" =>
        /\ Count(InvokedOrder, "RefactoringAgent") = 0
        /\ Count(InvokedOrder, "CodeScanningAgent") = 0
        /\ (pc = "done" /\ FailedOrder = <<>>) =>
              CompletedOrder = <<"CodePlanningAgent", "FunctionWritingAgent",
                                 "TestGenerationAgent", "UnitTestAgent">>

\* C16: when the worker invocation raises, the worker becomes failed,
\* stall_count grows by exactly 1, the round's analysis is a failure with the
\* exception as its single reason, and the driver goes on to the reselection
\* and replan checks and the router instead of raising.
RaisedRound ==
    (pc = "invoke" /\ pc' # "invoke" /\ execution_result'.raised) =>
        /\ pc' = "decide"
        /\ node_states'[next_node] = "failed"
        /\ stall_count' = stall_count + 1
        /\ ~execution_result'.success
        /\ ~execution_result'.analysis.success
        /\ execution_result'.analysis.failure_reasons =
                <<Reason("execution_exception", 0, 0)>>

C16_WorkerExceptionCaught ==
    /\ [][RaisedRound]_vars
    /\ []((pc = "decide" /\ execution_result.raised) =>
            /\ node_states[next_node] = "failed"
            /\ Len(execution_result.analysis.failure_reasons) = 1
            /\ ENABLED Decide)

C16_Witness ==
    /\ pc = "loop"
    /\ next_node \in participants
    /\ Len(workflow_agents) >= 1
    /\ workflow_agents[Len(workflow_agents)].status = "failed"
    /\ execution_history[Len(execution_history)] = Entry(next_node, "failed")
    /\ current_nodes = <<next_node>>


\* C17 (as claimed): no failure of a memory operation aborts the run, and the
\* state transition, the stall counter and the router's decision of a round
\* are those of the round's analysis whatever memory operation raised.
MemoryFaultWithoutEffect ==
    /\ (pc = "invoke" /\ pc' = "decide" /\ ~execution_result'.raised) =>
            /\ node_states'[next_node] =
                    (IF execution_result'.analysis.success THEN "completed"
                                                           ELSE "failed")
            /\ stall_count' =
                    stall_after(stall_count, execution_result'.analysis.success)
    /\ (pc = "decide" /\ pc' = "loop" /\ emitted' # emitted) =>
            current_nodes' = next_executable_nodes(next_node, execution_result,
                                 retry_counts, participants, max_retries)

C17_MemoryFailureHarmless ==
    /\ [](pc # "crashed")
    /\ [][MemoryFaultWithoutEffect]_vars

\* the rows of the fallback table in the order they are consulted
FallbackTable ==
    << [keys |-> {"zh:string", "string"},
        config |-> NamingConfig("string_utils", "string_operations.py",
                                "test_string_operations.py")],
       [keys |-> {"zh:math", "math", "zh:compute"},
        config |-> NamingConfig("math_utils", "math_calculator.py",
                                "test_math_calculator.py")],
       [keys |-> {"zh:file", "file"},
        config |-> NamingConfig("file_utils", "file_processor.py",
                                "test_file_processor.py")],
       [keys |-> {"zh:network", "network", "http"},
        config |-> NamingConfig("network_utils", "network_client.py",
                                "test_network_client.py")] >>

GenericConfig == NamingConfig("custom_utils", "main_module.py", "test_main_module.py")

RowMatches(i, t) == \E w \in t : keywords_in_lower(w) \cap FallbackTable[i].keys # {}

\* the configuration of the first matching row, the generic one if none matches
FirstMatch(t) ==
    IF \E i \in 1..Len(FallbackTable) : RowMatches(i, t)
        THEN FallbackTable[CHOOSE i \in 1..Len(FallbackTable) :
                                /\ RowMatches(i, t)
                                /\ \A j \in 1..(i - 1) : ~RowMatches(j, t)].config
        ELSE GenericConfig

\* the three names of a project configuration
NamingOf(config) ==
    NamingConfig(config.project_name, config.main_file, config.test_file)

\* C18: when the naming LLM call raises or returns text without a JSON
\* object, project_config is set from the first matching row of the fallback
\* table (string, math, file, network, else the generic default; a task
\* containing "string" gets string_utils / string_operations.py /
\* test_string_operations.py), planning can complete, and when it does the
\* run is at the entry of the inner loop with the source node as candidate.
NamingFallbackStep ==
    (pc \in {"planning", "replan"} /\ naming_reply \in {"no_json", "raises"}) =>
        /\ NamingOf(project_config') = FirstMatch(task)
        /\ ("String" \in task =>
                NamingOf(project_config') = NamingConfig("string_utils", "string_operations.py",
                                               "test_string_operations.py"))
        /\ \/ pc' = "loop" /\ current_nodes' = get_source_nodes
           \/ pc' = "aborted" /\ plan' = plan

C18_NamingFallback ==
    /\ [][NamingFallbackStep]_vars
    /\ []((pc \in {"planning", "replan"} /\ naming_reply \in {"no_json", "raises"}) =>
            ENABLED (OuterLoopPlanning /\ pc' = "loop"))

C18_Witness ==
    /\ pc = "invoke"
    /\ execution_round = 1
    /\ task = {"mathematics", "profile"}
    /\ NamingOf(project_config) =
            NamingConfig("math_utils", "math_calculator.py", "test_math_calculator.py")

\* C19: when an LLM call of a planning phase (initial or replan) raises, the
\* exception leaves the run: no round is started and nothing is emitted
\* afterwards, and the cleanup of the finally clause runs, which, if the memory
\* system had been initialised, calls close on the stores and has closed all
\* three unless a close call itself raised.
AfterPlanningRaise ==
    pc \in {"aborted", "raised"} =>
        /\ pc' \in {"aborted", "raised"}
        /\ execution_round' = execution_round
        /\ execution_history' = execution_history
        /\ emitted' = emitted
        /\ summary' = summary

AllStoresClosed ==
    /\ Len(close_calls) = Len(MemoryStores)
    /\ \A i \in 1..Len(close_calls) :
            close_calls[i] = CloseCall(MemoryStores[i], "closed")

TextEvents == Cardinality({i \in 1..Len(emitted) : emitted[i].type = "text"})

StopEvents == Cardinality({i \in 1..Len(emitted) : emitted[i].type = "stop"})

\* rounds whose loop body ended with continue (replan or alternative selected)
SkippedRounds ==
    Cardinality({i \in 1..Len(workflow_events) :
                    workflow_events[i].message \in {"replan", "alternative_selected"}})

\* C20 (as claimed): one text event per executed round, so that the number of
\* text events equals total_rounds, followed on termination by exactly one
\* final summary message.
C20_TextEventPerRound ==
    /\ pc \in {"loop", "replan", "done", "finished"} => TextEvents = execution_round
    /\ pc \in {"done", "finished"} =>
            /\ TextEvents = summary.total_rounds
            /\ StopEvents = 1
            /\ emitted[Len(emitted)].type = "stop"

\* C20 (amended): one text event per round that reaches the router and none
\* for a round that ends in a replan or in the selection of an alternative, so
\* that the number of text events is total_rounds minus the number of those
\* rounds; a run that leaves the loop emits exactly one final summary message,
\* after all text events, and a run ended by an exception emits none.
C20_TextEventPerRoutedRound ==
    /\ TextEvents + SkippedRounds =
            (IF pc \in {"invoke", "decide"} THEN execution_round - 1
                                            ELSE execution_round)
    /\ TextEvents <= execution_round
    /\ IF pc \in {"done", "finished"}
          THEN /\ summary.total_rounds = execution_round
               /\ StopEvents = 1
               /\ emitted[Len(emitted)].type = "stop"
          ELSE StopEvents = 0

C20_Witness ==
    /\ pc = "finished"
    /\ SkippedRounds = 1
    /\ TextEvents >= 2
    /\ TextEvents = summary.total_rounds - 1


\* the members of a list
Members(c) == {c[i] : i \in 1..Len(c)}

\* the LLM's choice cannot be used: no JSON, an exception, or not a candidate
Unusable(c, llm) == llm \in {"unparsable", "raised"} \/ llm \notin Members(c)

\* C21: for every non-empty candidate list and every LLM outcome the selector
\* returns a member of the list, the first candidate whenever the LLM's choice
\* is unusable (and the LLM's choice otherwise, for lists of several
\* candidates), and the worker returned is the one the round is started for.
SelectorStep ==
    (pc = "loop" /\ pc' = "invoke") =>
        /\ next_node' \in Members(current_nodes)
        /\ \E llm \in LLMOutcomes :
                next_node' = intelligent_node_selection(current_nodes, llm)
        /\ execution_history' =
                Append(execution_history, [node |-> next_node', state |-> "in_progress"])
        /\ workflow_agents'[Len(workflow_agents')].name = next_node'

C21_SelectorReturnsCandidate ==
    /\ []((pc = "loop" /\ current_nodes # <<>>) =>
            \A llm \in LLMOutcomes :
                LET selected == intelligent_node_selection(current_nodes, llm)
                IN  /\ selected \in Members(current_nodes)
                    /\ Unusable(current_nodes, llm) => selected = current_nodes[1]
                    /\ (~Unusable(current_nodes, llm) /\ Len(current_nodes) > 1) =>
                            selected = llm)
    /\ [][SelectorStep]_vars

C21_Witness ==
    /\ pc = "invoke"
    /\ execution_round = 1
    /\ Len(current_nodes) = 2
    /\ next_node = current_nodes[2]
    /\ execution_history = <<[node |-> next_node, state |-> "in_progress"]>>


\* C22 (as claimed): the stores stay usable across the runs of a process:
\* once the initialisation of a run has set memory_initialized, and until the
\* run's cleanup, every manager whose initialized flag is true has an open
\* store, in the first run and in every later one.
C22_StoresOpenWhenInitialized ==
    (memory_initialized /\ pc \in {"planning", "loop", "invoke", "decide", "replan"}) =>
        \A s \in StoreNames :
            managers[s].initialized => managers[s].store = "open"


\* C23: execution_history is append-only: a step that calls update_node_state
\* leaves node_states[name] = state and appends exactly one entry for that
\* name and state at the end of the history; no step of a run removes,
\* reorders or rewrites an entry.
HistoryStep ==
    /\ IsPrefix(execution_history, execution_history')
    /\ Len(execution_history') <= Len(execution_history) + 1
    /\ Len(execution_history') = Len(execution_history) + 1 =>
            LET entry == execution_history'[Len(execution_history')]
            IN  /\ entry.node = next_node'
                /\ entry.state \in NodeState
                /\ node_states'[entry.node] = entry.state
                /\ \A a \in Agents \ {entry.node} : node_states'[a] = node_states[a]

C23_HistoryAppendOnly == [][HistoryStep]_vars

C23_Witness ==
    /\ Len(execution_history) >= 4
    /\ execution_history[3] = Entry("FunctionWritingAgent", "in_progress")
    /\ execution_history[4] = Entry("FunctionWritingAgent", "failed")
    /\ node_states["FunctionWritingAgent"] = "completed"


\* C24: after set_project_config(project_name, main_file, test_file, base_dir)
\* get_file_path("main") is base_dir + "/" + main_file and
\* get_file_path("test") is base_dir + "/" + test_file, for all arguments, and
\* a later call replaces the paths of an earlier one.
PathsOf(config, base, main, test) ==
    /\ get_file_path(config, "main") = base \o <<"/">> \o <<main>>
    /\ get_file_path(config, "test") = base \o <<"/">> \o <<test>>

C24_FilePathsFollowConfig ==
    /\ [](project_config # NoConfig =>
            PathsOf(project_config, project_config.base_dir,
                    project_config.main_file, project_config.test_file))
    /\ [][project_config' # project_config =>
            \E name \in ProjectNames, main \in FileNames, test \in FileNames,
               base \in BaseDirs :
                /\ project_config'.project_name = name
                /\ project_config'.main_file = main
                /\ project_config'.test_file = test
                /\ project_config'.base_dir = base
                /\ PathsOf(project_config', base, main, test)]_vars

C24_Witness ==
    /\ pc = "start"
    /\ project_config # NoConfig
    /\ project_config.base_dir = <<"/", "tmp">>
    /\ get_file_path(project_config, "main") = <<"/", "tmp", "/", "string_operations.py">>
    /\ get_file_path(project_config, "test") =
            <<"/", "tmp", "/", "test_string_operations.py">>


RECURSIVE StallOf(_)
\* stall_count as the history determines it: every completed entry was
\* written together with a decrement, every failed entry with an increment
StallOf(h) ==
    IF h = <<>> THEN 0
    ELSE LET before == StallOf(SubSeq(h, 1, Len(h) - 1))
             entry == h[Len(h)]
         IN  CASE entry.state = "completed" -> stall_after(before, TRUE)
               [] entry.state = "failed" -> stall_after(before, FALSE)
               [] OTHER -> before

\* the rounds of the run, by the history entry that starts them
LoopHeads ==
    {i \in 1..Len(execution_history) : execution_history[i].state = "in_progress"}

\* what the loop's course depends on besides the worker outcomes, at the loop
\* head of the round started by entry i: the candidate taken and stall_count
\* (retry_counts never changes)
ControlAt(i) ==
    [candidate |-> execution_history[i].node,
     stall |-> StallOf(SubSeq(execution_history, 1, i - 1))]

\* the state agrees with the reading of the history used by ControlAt
ControlReading ==
    /\ stall_count = StallOf(execution_history)
    /\ retry_counts = <<>>
    /\ pc = "invoke" => current_nodes = <<next_node>>

\* C25 (as claimed): every run terminates whatever the workers answer. The
\* candidate and stall_count at a loop head, together with the answers from
\* then on, determine the rest of the loop, and they range over a finite set:
\* the loop terminates for every sequence of answers exactly if no run comes
\* back, at a loop head, to a candidate and stall_count it had at an earlier
\* loop head.
C25_NoControlStateTwice ==
    \A i, j \in LoopHeads : i < j => ControlAt(i) # ControlAt(j)


\* the replan of the loop body has run to its end: planning done again,
\* current_nodes = the source nodes, continue
ReplanReturns == pc = "replan" /\ pc' = "loop"

\* C26 (as claimed): when a failed round has raised stall_count to max_stalls
\* the driver replans and restarts from the source node: the loop head that
\* follows the replan starts a worker round (whose success would decrement
\* stall_count).
C26_RoundAfterReplan ==
    [][ReplanReturns => (loop_continues /\ current_nodes = get_source_nodes)']_vars


\* the steps of a round in the order the claim gives them
ClaimedOrder ==
    <<"context_starting", "instruction_build", "in_progress", "worker_call",
      "analysis", "transition", "log_record", "unit_test_record",
      "context_result", "send_messages">>

\* the steps of a round in the order of _intelligent_node_selection and
\* _execute_node_with_monitoring
CodeOrder ==
    <<"instruction_build", "in_progress", "context_starting", "prompt_build",
      "worker_call", "analysis", "transition", "log_record",
      "unit_test_record", "context_result", "send_messages">>

PositionIn(order, step) == CHOOSE i \in 1..Len(order) : order[i] = step

\* the steps named by order occur in steps at most once and in that order
InOrder(steps, order) ==
    LET named == SelectSeq(steps, LAMBDA x : x \in StepsOf(order))
    IN  \A i, j \in 1..Len(named) :
            i < j => PositionIn(order, named[i]) < PositionIn(order, named[j])

\* the round is over and the router decision is the next step
BeforeRouterDecision == pc = "decide"

ResultReachesRouter ==
    /\ pc = "decide"
    /\ ~(execution_result.needs_reselection
            /\ find_alternative_nodes(next_node, participants) # <<>>)
    /\ ~should_replan(stall_count, max_stalls)

\* step first occurs in steps, and before step second if that occurs
Precedes(steps, first, second) ==
    \E i \in 1..Len(steps) :
        /\ steps[i] = first
        /\ \A j \in 1..Len(steps) : steps[j] = second => i < j

\* C28 (as claimed): for every round whose result is passed to the router
\* while the memory system is initialised, whether the worker returned or
\* raised, the worker's context record was set to "starting" before the
\* worker call and to "completed" or "failed" after it, before the router
\* decision.
C28_ContextAroundCall ==
    (ResultReachesRouter /\ memory_initialized) =>
        /\ Precedes(round_steps, "context_starting", "worker_call")
        /\ Precedes(round_steps, "worker_call", "context_result")
        /\ "context_result" \in StepsOf(round_steps)


\* AlternativeNodes of the claim: the static fallback table
AlternativeNodes(w) ==
    CASE w = "FunctionWritingAgent" -> <<"CodePlanningAgent">>
      [] w = "TestGenerationAgent" -> <<"FunctionWritingAgent">>
      [] w = "UnitTestAgent" -> <<"TestGenerationAgent">>
      [] OTHER -> <<>>

\* the router is called for a failed worker outside the special rules whose
\* retry counter is above max_retries
RetriesExhausted ==
    /\ ResultReachesRouter
    /\ ~execution_result.success
    /\ router_rule(next_node, execution_result, retry_counts, max_retries) = "general"
    /\ retry_count_of(retry_counts, next_node) > max_retries

ReselectionMessages == {"needs_reselection", "alternative_selected", "no_alternative"}

\* C30: in every reachable state of a run the retry counter of every worker
\* is 0, no round asks for reselection, the router never finds the retries
\* of a failed worker exhausted, and failed_paths is empty.
C30_RetryCountsStayZero ==
    /\ \A w \in Agents : retry_count_of(retry_counts, w) = 0
    /\ failed_paths = <<>>
    /\ ~execution_result.needs_reselection
    /\ \A i \in 1..Len(workflow_events) :
            workflow_events[i].message \notin ReselectionMessages
    /\ ~RetriesExhausted

\* the run's first worker has failed twice in a row and its second failure
\* is about to be routed: a retry follows and no counter has moved
C30_Witness ==
    /\ ResultReachesRouter
    /\ ~execution_result.success
    /\ Len(execution_history) >= 4
    /\ \A i \in 1..Len(execution_history) :
            /\ execution_history[i].node = next_node
            /\ execution_history[i].state \in {"in_progress", "failed"}


\* C31 (as claimed): every worker selected for a round, and so every key of
\* node_states, is a participant of the chain; in particular the first worker
\* selected in each of the four chains is a participant of that chain.
C31_SelectedIsParticipant ==
    /\ next_node # "none" => next_node \in participants
    /\ \A a \in Agents : node_states[a] # "absent" => a \in participants
    /\ \A i \in 1..Len(execution_history) :
            execution_history[i].node \in participants


\* the indices of the history entries of worker w
EntriesOf(w) ==
    {i \in 1..Len(execution_history) : execution_history[i].node = w}

\* the index of the most recent history entry of worker w (0: none)
LastEntryOf(w) ==
    IF EntriesOf(w) = {} THEN 0
    ELSE CHOOSE i \in EntriesOf(w) : \A j \in EntriesOf(w) : j <= i

\* node_states[w] is the state of w's most recent history entry
AgreesWithHistory(w) ==
    node_states[w] = execution_history[LastEntryOf(w)].state

\* the router's direct write after a successful refactor round: the test
\* runner is not_started, its most recent entry says failed, and a completed
\* refactor entry follows it
ResetByRouter(w) ==
    /\ w = "UnitTestAgent"
    /\ EntriesOf(w) # {}
    /\ node_states[w] = "not_started"
    /\ execution_history[LastEntryOf(w)].state = "failed"
    /\ \E i \in (LastEntryOf(w) + 1)..Len(execution_history) :
            execution_history[i] = Entry("RefactoringAgent", "completed")

PromptBuilt == "prompt_build" \in StepsOf(round_steps)

RefactorSelected ==
    \/ pc = "loop" /\ loop_continues /\ current_nodes = <<"RefactoringAgent">>
    \/ pc \in {"invoke", "decide"} /\ next_node = "RefactoringAgent"
    \/ node_states["RefactoringAgent"] = "in_progress"

\* every round of the refactor worker starts directly after a failed round of
\* the test runner or of the refactor worker itself
RefactorFollowsFailure ==
    \A i \in 1..Len(execution_history) :
        execution_history[i] = Entry("RefactoringAgent", "in_progress") =>
            /\ i > 1
            /\ execution_history[i - 1] \in {Entry("UnitTestAgent", "failed"),
                                             Entry("RefactoringAgent", "failed")}

\* C34: whenever the refactor worker is selected or in progress the node
\* state of the test runner is failed; a refactor round is only started
\* directly after a failed test-runner round or a failed refactor round.
C34_RefactorOnlyAfterTestFailure ==
    /\ RefactorSelected => node_states["UnitTestAgent"] = "failed"
    /\ RefactorFollowsFailure

\* a second refactor round is running, after the first one failed
C34_Witness ==
    /\ pc = "invoke"
    /\ next_node = "RefactoringAgent"
    /\ next_node \in participants
    /\ \E i \in 1..Len(execution_history) :
            execution_history[i] = Entry("RefactoringAgent", "failed")


\* none of the worker's completion markers occurs in the combined content
NoMarkerOccurs ==
    \A k \in 1..Len(all_content(response)) :
        all_content(response)[k].markers \cap completion_markers(next_node) = {}

\* C35: for any worker, when none of its completion markers occurs in the
\* combined content (chat message and all inner messages, joined by blanks),
\* the analyzer returns has_completion_marker = false, and success = true
\* exactly if the combined content is longer than 50 characters.
C35_NoMarkerSuccessByLength ==
    (pc = "analyzed" /\ NoMarkerOccurs) =>
        /\ ~execution_result.analysis.has_completion_marker
        /\ execution_result.analysis.success
                <=> joined_length(all_content(response)) > 50

\* two contents of 25 characters: 51 with the separator, and a marker of
\* another worker in one of them
C35_Witness ==
    /\ pc = "analyzed"
    /\ NoMarkerOccurs
    /\ response.chat_message.length = 25
    /\ response.chat_message.markers # {}
    /\ joined_length(all_content(response)) = 51
    /\ execution_result.analysis.success


\* C36 (as claimed): after memory initialisation the agent_dependencies map
\* of the communication memory equals the dependency map of the chosen chain
\* configuration, for each of the four chains.
C36_DependenciesOfChain ==
    memory_initialized => agent_dependencies = ChainDependencies(chain)


\* a round of the test runner returns normally while the memory system is
\* initialised
TestRoundReturns ==
    /\ pc = "invoke" /\ pc' = "decide"
    /\ next_node = "UnitTestAgent"
    /\ memory_initialized
    /\ ~execution_result'.raised

\* C37 (as claimed): after every round of the test runner that returns
\* normally while the memory system is initialised, the unit-test memory
\* holds a new record for the round: the test history has grown by exactly
\* one entry, whose success flag is the round's analysis result.
C37_TestRoundRecorded ==
    [][TestRoundReturns =>
          /\ Len(test_history') = Len(test_history) + 1
          /\ test_history'[Len(test_history')].success = execution_result'.success]_vars


\* C38: every candidate list the driver passes to the selector has exactly
\* one element, so the multi-candidate branch of the selector is never taken
\* in a run.
C38_SingleCandidate ==
    /\ (pc = "loop" /\ loop_continues) => Len(current_nodes) = 1
    /\ pc \in {"invoke", "decide"} => current_nodes = <<next_node>>
    /\ Len(current_nodes) <= 1

\* the loop head after a router answer that is neither the source node nor
\* the successor of the last worker
C38_Witness ==
    /\ pc = "loop"
    /\ loop_continues
    /\ current_nodes = <<"RefactoringAgent">>
    /\ execution_round >= 4


\* the names of the records of a list
NamesOf(records) == [i \in 1..Len(records) |-> records[i].test_name]

\* the line starts with the header, as it stands or once the blanks around
\* it are removed
IsHeader(line, header, stripped) ==
    starts_with(IF stripped THEN strip(line) ELSE line, header)

\* the names that follow the given header in the header lines, in input order
RECURSIVE HeaderNames(_, _, _)
HeaderNames(lines, header, stripped) ==
    IF lines = <<>> THEN <<>>
    ELSE (IF IsHeader(Head(lines), header, stripped)
            THEN <<test_name_of(strip(Head(lines)))>> ELSE <<>>)
         \o HeaderNames(Tail(lines), header, stripped)

\* the parsed names written out again as header lines
EmitHeaders(parsed) ==
    [i \in 1..Len(parsed.failures) |->
        <<"FAIL", ":", " ">> \o parsed.failures[i].test_name]
    \o [i \in 1..Len(parsed.errors) |->
        <<"ERROR", ":", " ">> \o parsed.errors[i].test_name]

\* parsing the re-emitted headers yields the same names
RoundTrip(parsed) ==
    LET again == parse_test_output(EmitHeaders(parsed))
    IN  /\ NamesOf(again.failures) = NamesOf(parsed.failures)
        /\ NamesOf(again.errors) = NamesOf(parsed.errors)

\* C39 (as claimed): parsing a raw output yields exactly one failure record
\* per line that starts with "FAIL:" and one error record per line that
\* starts with "ERROR:", in input order, each with the name that follows the
\* header; parsing the re-emitted names yields the same names.
C39_OneRecordPerHeaderLine ==
    \A k \in 1..Len(test_history) :
        LET rec == test_history[k]
        IN  /\ NamesOf(rec.parsed_output.failures)
                    = HeaderNames(rec.raw_output, "FAIL", FALSE)
            /\ NamesOf(rec.parsed_output.errors)
                    = HeaderNames(rec.raw_output, "ERROR", FALSE)
            /\ RoundTrip(rec.parsed_output)

\* C39 (amended): one failure record per line that starts with "FAIL:" after
\* the blanks around the line are removed, one error record per such line
\* with "ERROR:", in input order, each with the name that follows the header
\* without the blanks around it; parsing the re-emitted names yields the same
\* names.
C39_OneRecordPerStrippedHeaderLine ==
    \A k \in 1..Len(test_history) :
        LET rec == test_history[k]
        IN  /\ NamesOf(rec.parsed_output.failures)
                    = HeaderNames(rec.raw_output, "FAIL", TRUE)
            /\ NamesOf(rec.parsed_output.errors)
                    = HeaderNames(rec.raw_output, "ERROR", TRUE)
            /\ \A i \in 1..Len(rec.parsed_output.failures) :
                    rec.parsed_output.failures[i].type = "FAIL"
            /\ \A i \in 1..Len(rec.parsed_output.errors) :
                    rec.parsed_output.errors[i].type = "ERROR"
            /\ RoundTrip(rec.parsed_output)

\* an output with a failure, an indented failure and an error has been
\* recorded
C39_Witness ==
    /\ Len(test_history) = 1
    /\ test_history[1].raw_output =
            << <<"FAIL", ":", "test_a", ":", "test_b", " ">>,
               <<"ERROR", ":", " ", "test_b">>,
               <<" ", "FAIL", ":", " ", "test_b">> >>
    /\ NamesOf(test_history[1].parsed_output.failures)
            = << <<"test_a", ":", "test_b">>, <<"test_b">> >>
    /\ NamesOf(test_history[1].parsed_output.errors) = << <<"test_b">> >>

====
